---- MODULE Spec2Model ----
(***************************************************************************)
(* Model of the localchat turn orchestrator (app/window.py) together with  *)
(* its workers (core/backend.py, web/web_search.py, window.TitleWorker)    *)
(* and the chat collection it owns (core/chat_state.py).                   *)
(*                                                                         *)
(* Text is a sequence of atoms.  An atom is a one-character string or a    *)
(* fixed phrase of the source that the code never splits (a prompt, a      *)
(* message prefix).  Python indices are kept 0-based; chats[i] of the      *)
(* source is chats[i + 1] here.  A chat dict is an object: `objs` is the   *)
(* heap of chat objects ever created, `chats` lists the ids of the ones    *)
(* in the collection.  `list_row` is the current row of the QListWidget:   *)
(* Qt emits currentRowChanged, which the window connects to                *)
(* on_chat_selected, when the current item of the list changes, and not    *)
(* when setCurrentRow names the row that is current already.  `disk` is    *)
(* data/chats.json.                                                        *)
(*                                                                         *)
(* `turn`, `log` and `early_return` record what happened (the turn         *)
(* accepted last, the stages it went through, the last early return);      *)
(* `quota` bounds the number of turns and of other user events.            *)
(***************************************************************************)
EXTENDS Integers, Sequences, FiniteSets, TLC

\* ------------------------------------------------------------------------
\* Bounds of the model
\* ------------------------------------------------------------------------
MaxTurns == 2
MaxObjs == 3
MaxEvents == 1

\* ------------------------------------------------------------------------
\* Text helpers (str.strip, str.lower, str.startswith)
\* ------------------------------------------------------------------------
IsSpace(c) == c \in {" ", "\n"}

RECURSIVE LStrip(_)
LStrip(s) == IF s # <<>> /\ IsSpace(Head(s)) THEN LStrip(Tail(s)) ELSE s

RECURSIVE RStrip(_)
RStrip(s) ==
    IF s # <<>> /\ IsSpace(s[Len(s)]) THEN RStrip(SubSeq(s, 1, Len(s) - 1)) ELSE s

Strip(s) == RStrip(LStrip(s))

LowerChar(c) ==
    CASE c = "C" -> "c"
      [] c = "H" -> "h"
      [] c = "A" -> "a"
      [] c = "T" -> "t"
      [] c = "N" -> "n"
      [] OTHER -> c

Lower(s) == [i \in 1..Len(s) |-> LowerChar(s[i])]

StartsWith(s, p) == Len(s) >= Len(p) /\ SubSeq(s, 1, Len(p)) = p

Digit(n) == CASE n = 1 -> "1" [] n = 2 -> "2" [] n = 3 -> "3" [] n = 4 -> "4" [] OTHER -> "9"

\* f"Chat {n}"
ChatTitle(n) == <<"C", "h", "a", "t", " ", Digit(n)>>

\* ------------------------------------------------------------------------
\* Program constants
\* ------------------------------------------------------------------------
DEFAULT_MODEL_NAME == "llama3:latest"
AVAILABLE_MODELS == {"llama3:latest", "mistral:latest"}
SystemPrompt == <<"<system prompt>">>
WebFollowup == <<"<web followup instruction>">>

DEFAULT_WEB_SEARCH_SETTINGS ==
    [enabled |-> TRUE, use_planner |-> TRUE, max_results |-> 10, max_pages |-> 5,
     max_chars_per_page |-> 6000, language |-> "en", safesearch |-> 1,
     show_query |-> TRUE, strict_web_only |-> TRUE]

\* ------------------------------------------------------------------------
\* Messages and chats
\* ------------------------------------------------------------------------
\* A history entry; a dict without the "kind" key has kind = "" here, which
\* is what every reader of the key (msg.get("kind") or "") sees.
Msg(role, content, kind) == [role |-> role, content |-> content, kind |-> kind]

Frag(tag, text) == [tag |-> tag, text |-> text]

make_new_chat(title, model_name) ==
    [title |-> title,
     model |-> IF model_name = "" THEN DEFAULT_MODEL_NAME ELSE model_name,
     history |-> <<Msg("system", SystemPrompt, "")>>,
     html |-> <<>>]

\* Rebuild of the visible conversation from a loaded history
RECURSIVE RebuildHtml(_)
RebuildHtml(history) ==
    IF history = <<>> THEN <<>>
    ELSE LET msg == Head(history)
             rest == RebuildHtml(Tail(history))
         IN  IF msg.content = <<>> THEN rest
             ELSE IF msg.kind \in {"web_links", "web_results"}
                  THEN <<Frag("web_links", msg.content)>> \o rest
             ELSE IF msg.role \in {"system", "user", "assistant"}
                  THEN <<Frag(msg.role, msg.content)>> \o rest
             ELSE rest

\* ------------------------------------------------------------------------
\* Inputs the environment can supply
\* ------------------------------------------------------------------------
RawInputs == {<<>>, <<" ">>, <<"a", " ">>}
RenameInputs == {<<" ">>, <<"N", "o", "t", "e", "s">>, <<"c", "h", "a", "t", " ", "x">>}
Rec(title, url, snippet) == [title |-> title, url |-> url, snippet |-> snippet]

UpstreamLists ==
    {<<>>,
     <<Rec(<<"t", "3">>, <<>>, <<>>)>>,
     <<Rec(<<"t", "1">>, <<"u", "1">>, <<"s">>), Rec(<<"t", "3">>, <<>>, <<>>),
       Rec(<<>>, <<"u", "2">>, <<>>)>>}

Resp(outcome, content) == [outcome |-> outcome, content |-> content]

\* Outcomes of the model call: a failed request, or a response with content
ModelResponses == {Resp("fail", <<>>), Resp("ok", <<>>), Resp("ok", <<"r", " ">>)}

\* Outcomes of the planner call: a failed request, a response (with or
\* without content), or an exception that escapes build_search_query
PlannerResponses ==
    {Resp("fail", <<>>), Resp("raise", <<>>), Resp("ok", <<>>), Resp("ok", <<"q", " ">>)}

\* Outcomes of the title call, likewise
TitleResponses ==
    {Resp("fail", <<>>), Resp("raise", <<>>), Resp("ok", <<" ">>), Resp("ok", <<"T", "\n">>)}

\* Outcomes of the search request: a failed request, or the upstream records
SearchResponses == {Resp("fail", <<>>)} \cup {Resp("ok", l) : l \in UpstreamLists}

\* Visible text of a fetched page (empty: the fetch failed or was not HTML)
PageTexts == {<<>>, <<"p">>}

\* What a settings save can write: the auto-title flag, the web_search
\* settings and the default model
SettingsChoices ==
    {[auto_title_planner |-> FALSE, default_model |-> "mistral:latest",
      web_search |->
         [enabled |-> TRUE, use_planner |-> FALSE, max_results |-> 1, max_pages |-> 0,
          max_chars_per_page |-> 1, language |-> "auto", safesearch |-> 0,
          show_query |-> FALSE, strict_web_only |-> FALSE]],
     [auto_title_planner |-> TRUE, default_model |-> "llama3:latest",
      web_search |->
         [DEFAULT_WEB_SEARCH_SETTINGS EXCEPT !.max_pages = 1, !.use_planner = FALSE]]}

\* ------------------------------------------------------------------------
\* State
\* ------------------------------------------------------------------------
VARIABLES
    objs,                \* heap of chat dicts, by id (1..Len(objs))
    chats,               \* self.chats: ids of the chats in the collection
    current_chat_index,  \* self.current_chat_index (0-based)
    default_model_name,  \* self.default_model_name
    llm_busy,            \* self.llm_busy
    send_enabled,        \* self.send_button.isEnabled()
    settings,            \* data/settings.json: auto_title_planner, web_search
    workers,             \* worker objects alive: dispatched, signal not yet handled
    turn,                \* the turn accepted last: its number, chat, text and path,
                         \* the chat's history length and the settings at the submit,
                         \* and the number of history entries it has appended
    log,                 \* stages of that turn, in the order they began and ended
    early_return,        \* the handler call that returned early last, "" if none
    quota,               \* turns and other UI events the model still admits
    list_row,            \* self.chat_list.currentRow() (0-based, -1 for none)
    disk                 \* data/chats.json: the document, or NoFile

vars == <<objs, chats, current_chat_index, default_model_name, llm_busy,
          send_enabled, settings, workers, turn, log, early_return, quota,
          list_row, disk>>

\* self.current_chat, as the id of the chat object (0 for None)
current_chat ==
    IF 0 <= current_chat_index /\ current_chat_index < Len(chats)
    THEN chats[current_chat_index + 1] ELSE 0

load_web_settings == settings.web_search

is_title_planner_enabled == settings.auto_title_planner

\* append_system / append_user / append_assistant: the visible conversation
\* of the current chat gains one fragment; nothing happens without a chat.
append_html(o, tag, text) ==
    IF current_chat = 0 THEN o
    ELSE [o EXCEPT ![current_chat].html = Append(@, Frag(tag, text))]

\* ------------------------------------------------------------------------
\* Startup: _load_or_create_chats
\* ------------------------------------------------------------------------
FirstRunHtml ==
    <<Frag("system", <<"Backend: ">>), Frag("system", <<"Available models: ">>),
      Frag("system", <<"Current model: ">>), Frag("system", <<"MAX_TOKENS=">>)>>

\* What load_chats can return: two chats saved by an earlier session with the
\* second one active, or a chats.json whose only chat carries an empty title
LoadedChoices ==
    {[chats |-> <<[title |-> ChatTitle(1), model |-> "llama3:latest",
                   history |-> <<Msg("system", SystemPrompt, ""),
                                 Msg("user", <<"a">>, ""),
                                 Msg("assistant", <<"r">>, "")>>],
                  [title |-> <<"N", "o", "t", "e", "s">>, model |-> "mistral:latest",
                   history |-> <<Msg("system", SystemPrompt, "")>>]>>,
      current_index |-> 1],
     [chats |-> <<[title |-> <<>>, model |-> "llama3:latest",
                   history |-> <<Msg("system", SystemPrompt, "")>>]>>,
      current_index |-> 0]}

\* data/chats.json does not exist
NoFile == <<>>

InitCommon ==
    /\ default_model_name = DEFAULT_MODEL_NAME
    /\ llm_busy = FALSE
    /\ send_enabled = TRUE
    /\ settings = [auto_title_planner |-> TRUE,
                   web_search |-> DEFAULT_WEB_SEARCH_SETTINGS]
    /\ workers = <<>>
    /\ turn = [n |-> 0, chat |-> 0, text |-> <<>>, path |-> "", base |-> 0,
               ws |-> DEFAULT_WEB_SEARCH_SETTINGS, appended |-> 0]
    /\ log = <<>>
    /\ early_return = ""

InitFirstRun ==
    /\ objs = <<[make_new_chat(ChatTitle(1), DEFAULT_MODEL_NAME)
                    EXCEPT !.html = FirstRunHtml]>>
    /\ chats = <<1>>
    /\ current_chat_index = 0
    /\ list_row = 0
    /\ disk = NoFile

InitLoaded ==
    \E loaded \in LoadedChoices :
        /\ objs = [i \in 1..Len(loaded.chats) |->
                     [title |-> loaded.chats[i].title,
                      model |-> loaded.chats[i].model,
                      history |-> loaded.chats[i].history,
                      html |-> RebuildHtml(loaded.chats[i].history)]]
        /\ chats = [i \in 1..Len(loaded.chats) |-> i]
        /\ current_chat_index = loaded.current_index
        /\ list_row = loaded.current_index
        /\ disk = <<loaded>>

InitProgram == InitCommon /\ (InitFirstRun \/ InitLoaded)

Init == InitProgram /\ quota = [turns |-> MaxTurns, events |-> MaxEvents]

\* ------------------------------------------------------------------------
\* Coordinator: chat management (UI thread)
\* ------------------------------------------------------------------------
\* A submit handler that returns early: nothing of the program changes
Returned(tag) ==
    /\ quota.events > 0
    /\ quota' = [quota EXCEPT !.events = @ - 1]
    /\ early_return' = tag
    /\ UNCHANGED <<list_row, disk>>
    /\ UNCHANGED <<objs, chats, current_chat_index, default_model_name, llm_busy,
                   send_enabled, settings, workers, turn, log>>

RemoveAt(seq, i) == SubSeq(seq, 1, i - 1) \o SubSeq(seq, i + 1, Len(seq))

Min(a, b) == IF a < b THEN a ELSE b

\* on_chat_selected: the value of self.current_chat_index after the handler
\* ran with `index`, for a collection of n chats
on_chat_selected(index, cur, n) ==
    IF index < 0 \/ index >= n THEN cur ELSE index

\* currentRowChanged as Qt emits it: `signal` is <<>> when nothing is emitted,
\* else the one row the signal carries
Deliver(signal, cur, n) ==
    IF signal = <<>> THEN cur ELSE on_chat_selected(signal[1], cur, n)

\* QListWidget.setCurrentRow(row): the list's current row and
\* self.current_chat_index afterwards.  Naming the current row emits nothing.
setCurrentRow(row, lr, cur, n) ==
    IF row = lr THEN [list_row |-> lr, index |-> cur]
    ELSE [list_row |-> row, index |-> on_chat_selected(row, cur, n)]

\* QListWidget.takeItem(row) on a list of n rows whose current row is lr.
\* Removing the current row makes the row above current, else the row below
\* (the signal then carries the row number it had before the removal), else
\* none; removing another row emits nothing and the current item keeps its
\* place among the remaining rows.
takeItem(row, lr, n) ==
    IF lr = row
    THEN IF row > 0 THEN [list_row |-> row - 1, signal |-> <<row - 1>>]
         ELSE IF n > 1 THEN [list_row |-> 0, signal |-> <<1>>]
         ELSE [list_row |-> -1, signal |-> <<-1>>]
    ELSE IF lr > row THEN [list_row |-> lr - 1, signal |-> <<>>]
    ELSE [list_row |-> lr, signal |-> <<>>]

\* The user makes a row of the chat list current (click or keyboard)
currentRowChanged(row) ==
    IF row = list_row THEN UNCHANGED vars
    ELSE /\ quota.events > 0
         /\ list_row' = row
         /\ current_chat_index' = on_chat_selected(row, current_chat_index, Len(chats))
         /\ quota' = [quota EXCEPT !.events = @ - 1]
         /\ early_return' = ""
         /\ UNCHANGED <<objs, chats, default_model_name, llm_busy, send_enabled,
                        settings, workers, turn, log, disk>>

on_new_chat_clicked ==
    /\ Len(objs) < MaxObjs
    /\ quota.events > 0
    /\ quota' = [quota EXCEPT !.events = @ - 1]
    /\ objs' = Append(objs, make_new_chat(ChatTitle(Len(chats) + 1), default_model_name))
    /\ chats' = Append(chats, Len(objs) + 1)
    /\ LET sel == setCurrentRow(Len(chats), list_row, current_chat_index,
                                Len(chats) + 1)
       IN  /\ list_row' = sel.list_row
           /\ current_chat_index' = sel.index
    /\ early_return' = ""
    /\ UNCHANGED <<default_model_name, llm_busy, send_enabled, settings, workers,
                   turn, log, disk>>

\* _delete_chat_at as it would be without the replacement of the last chat
_delete_chat_at_NoReplacement(row) ==
    IF row < 0 \/ row >= Len(chats) THEN UNCHANGED vars
    ELSE LET popped == RemoveAt(chats, row + 1)
             taken == takeItem(row, list_row, Len(chats))
             cur1 == Deliver(taken.signal, current_chat_index, Len(popped))
             sel == IF popped = <<>> THEN [list_row |-> taken.list_row, index |-> cur1]
                    ELSE setCurrentRow(Min(row, Len(popped) - 1), taken.list_row,
                                       cur1, Len(popped))
         IN
         /\ quota.events > 0
         /\ quota' = [quota EXCEPT !.events = @ - 1]
         /\ early_return' = ""
         /\ chats' = popped
         /\ list_row' = sel.list_row
         /\ current_chat_index' = sel.index
         /\ UNCHANGED <<objs, default_model_name, llm_busy, send_enabled, settings,
                        workers, turn, log, disk>>

\* _delete_chat_at, reached from the delete button (row = currentRow()), from
\* the close button of an item and from the context menu (any row)
_delete_chat_at(row) ==
    IF row < 0 \/ row >= Len(chats) THEN UNCHANGED vars
    ELSE LET popped == RemoveAt(chats, row + 1)
             taken == takeItem(row, list_row, Len(chats))
             cur1 == Deliver(taken.signal, current_chat_index, Len(popped))
         IN
         /\ quota.events > 0
         /\ quota' = [quota EXCEPT !.events = @ - 1]
         /\ early_return' = ""
         /\ UNCHANGED <<default_model_name, llm_busy, send_enabled, settings,
                        workers, turn, log, disk>>
         /\ IF popped = <<>>
            THEN LET sel == setCurrentRow(0, taken.list_row, cur1, 1) IN
                 /\ Len(objs) < MaxObjs
                 /\ objs' = Append(objs, make_new_chat(ChatTitle(1), default_model_name))
                 /\ chats' = <<Len(objs) + 1>>
                 /\ list_row' = sel.list_row
                 /\ current_chat_index' = sel.index
            ELSE LET sel == setCurrentRow(Min(row, Len(popped) - 1), taken.list_row,
                                          cur1, Len(popped)) IN
                 /\ chats' = popped
                 /\ list_row' = sel.list_row
                 /\ current_chat_index' = sel.index
                 /\ objs' = objs

_rename_chat_at(row, typed, ok) ==
    IF row < 0 \/ row >= Len(chats) THEN UNCHANGED vars
    ELSE IF ~ok \/ Strip(typed) = <<>> THEN UNCHANGED vars
    ELSE /\ quota.events > 0
         /\ objs' = [objs EXCEPT ![chats[row + 1]].title = Strip(typed)]
         /\ quota' = [quota EXCEPT !.events = @ - 1]
         /\ early_return' = ""
         /\ UNCHANGED <<list_row, disk>>
         /\ UNCHANGED <<chats, current_chat_index, default_model_name, llm_busy,
                        send_enabled, settings, workers, turn, log>>

\* on_model_changed as it would be if it rewrote the chat's system message
on_model_changed_Resync(text) ==
    IF current_chat = 0 \/ text = "" \/ text = objs[current_chat].model
    THEN UNCHANGED vars
    ELSE /\ quota.events > 0
         /\ objs' = append_html([objs EXCEPT ![current_chat].model = text,
                                             ![current_chat].history[1] =
                                                 Msg("user", SystemPrompt, "")],
                                "system", <<"Switched model from: ">>)
         /\ quota' = [quota EXCEPT !.events = @ - 1]
         /\ early_return' = ""
         /\ UNCHANGED <<list_row, disk>>
         /\ UNCHANGED <<chats, current_chat_index, default_model_name, llm_busy,
                        send_enabled, settings, workers, turn, log>>

on_model_changed(text) ==
    IF current_chat = 0 \/ text = "" \/ text = objs[current_chat].model
    THEN UNCHANGED vars
    ELSE /\ quota.events > 0
         /\ objs' = append_html([objs EXCEPT ![current_chat].model = text],
                                "system", <<"Switched model from: ">>)
         /\ quota' = [quota EXCEPT !.events = @ - 1]
         /\ early_return' = ""
         /\ UNCHANGED <<list_row, disk>>
         /\ UNCHANGED <<chats, current_chat_index, default_model_name, llm_busy,
                        send_enabled, settings, workers, turn, log>>

\* SettingsOverlay.on_save_clicked, then on_settings_updated
on_save_clicked(choice) ==
    /\ quota.events > 0
    /\ settings' = [auto_title_planner |-> choice.auto_title_planner,
                    web_search |-> choice.web_search]
    /\ default_model_name' = choice.default_model
    /\ quota' = [quota EXCEPT !.events = @ - 1]
    /\ early_return' = ""
    /\ UNCHANGED <<list_row, disk>>
    /\ UNCHANGED <<objs, chats, current_chat_index, llm_busy, send_enabled,
                   workers, turn, log>>

\* ------------------------------------------------------------------------
\* Workers (QObject moved to its own QThread; one record per worker object)
\* ------------------------------------------------------------------------
\* pc: "created" (thread started, run not yet entered), "<stage>_call" (inside
\* the blocking network call of that stage), "finished" / "error" (terminal
\* signal emitted and queued for the coordinator).
\* hist is the content of the list the worker was given, as it was at the
\* dispatch; ref is 0 when that list is the worker's own copy, and the id of
\* the chat when the worker was handed the chat's own history list.
\* raised is the class of the exception that left search_web, "" if none.
\* for_chat is the id of the chat whose history a title worker was given (the
\* worker object itself does not hold it), 0 for the other workers.
\* quit_on holds the signals of the worker that are connected to the quit
\* slot of its thread: finished and error where the search worker, the title
\* worker and the model worker of the direct path are started, finished alone
\* where on_web_search_finished starts the model worker of a search turn.
NewWorker(kind, path, hist, ref, planner_history, raw_message, model_name) ==
    [kind |-> kind, pc |-> "created", path |-> path, hist |-> hist, ref |-> ref,
     planner_history |-> planner_history, raw_message |-> raw_message,
     model_name |-> IF model_name = "" THEN DEFAULT_MODEL_NAME ELSE model_name,
     ws |-> DEFAULT_WEB_SEARCH_SETTINGS, search_query |-> <<>>, results |-> <<>>,
     i |-> 0, md_lines |-> <<>>, context_blocks |-> <<>>, messages |-> <<>>,
     first_msg |-> <<>>, out |-> <<>>, raised |-> "", for_chat |-> 0,
     quit_on |-> IF kind = "model" /\ path = "search" THEN {"finished"}
                 ELSE {"finished", "error"}]

\* ------------------------------------------------------------------------
\* Coordinator: busy bookkeeping and title planner
\* ------------------------------------------------------------------------
\* _finish_llm_cycle
_finish_llm_cycle ==
    /\ llm_busy' = FALSE
    /\ send_enabled' = TRUE

\* The title test of _start_title_planner_if_needed: only generic "Chat N"
\* titles (and empty ones) are auto-named.
\* The title test as it would be if it compared the title as typed
TitleIsGeneric_CaseSensitive(title) ==
    LET t == Strip(title) IN
    ~(t # <<>> /\ ~StartsWith(t, <<"C", "h", "a", "t", " ">>))

TitleIsGeneric(title) ==
    LET t == Strip(title) IN ~(t # <<>> /\ ~StartsWith(Lower(t), <<"c", "h", "a", "t", " ">>))

\* _start_title_planner_if_needed as it would be if it ended the cycle before
\* it starts the title worker.
_start_title_planner_FinishFirst(o, ws_, lg) ==
    IF ~is_title_planner_enabled
    THEN _finish_llm_cycle /\ workers' = ws_ /\ log' = lg
    ELSE IF ~(0 <= current_chat_index /\ current_chat_index < Len(chats))
    THEN _finish_llm_cycle /\ workers' = ws_ /\ log' = lg
    ELSE LET chat == o[chats[current_chat_index + 1]] IN
         IF ~TitleIsGeneric(chat.title)
         THEN _finish_llm_cycle /\ workers' = ws_ /\ log' = lg
         ELSE IF chat.history = <<>>
         THEN _finish_llm_cycle /\ workers' = ws_ /\ log' = lg
         ELSE /\ workers' = Append(ws_,
                     [NewWorker("title", "", chat.history, 0, <<>>, <<>>,
                                IF chat.model = "" THEN default_model_name
                                ELSE chat.model)
                         EXCEPT !.for_chat = chats[current_chat_index + 1]])
              /\ log' = Append(lg, "title_dispatch")
              /\ _finish_llm_cycle

\* _start_title_planner_if_needed, given the heap o, the worker list ws_ and
\* the stage log lg as the calling handler leaves them.
_start_title_planner_if_needed(o, ws_, lg) ==
    IF ~is_title_planner_enabled
    THEN _finish_llm_cycle /\ workers' = ws_ /\ log' = lg
    ELSE IF ~(0 <= current_chat_index /\ current_chat_index < Len(chats))
    THEN _finish_llm_cycle /\ workers' = ws_ /\ log' = lg
    ELSE LET chat == o[chats[current_chat_index + 1]] IN
         IF ~TitleIsGeneric(chat.title)
         THEN _finish_llm_cycle /\ workers' = ws_ /\ log' = lg
         ELSE IF chat.history = <<>>
         THEN _finish_llm_cycle /\ workers' = ws_ /\ log' = lg
         ELSE /\ workers' = Append(ws_,
                     [NewWorker("title", "", chat.history, 0, <<>>, <<>>,
                                IF chat.model = "" THEN default_model_name
                                ELSE chat.model)
                         EXCEPT !.for_chat = chats[current_chat_index + 1]])
              /\ log' = Append(lg, "title_dispatch")
              /\ UNCHANGED <<llm_busy, send_enabled>>

\* ------------------------------------------------------------------------
\* Coordinator: submitting a turn
\* ------------------------------------------------------------------------
\* PlannerHistory as it would be without the test on kind
RECURSIVE PlannerHistory_KeepWebResults(_)
PlannerHistory_KeepWebResults(history) ==
    IF history = <<>> THEN <<>>
    ELSE LET msg == Head(history)
             rest == PlannerHistory_KeepWebResults(Tail(history))
         IN  IF msg.role \notin {"user", "assistant"} THEN rest
             ELSE <<msg>> \o rest

\* The planner-visible sub-history built by on_search_web_clicked
RECURSIVE PlannerHistory(_)
PlannerHistory(history) ==
    IF history = <<>> THEN <<>>
    ELSE LET msg == Head(history)
             rest == PlannerHistory(Tail(history))
         IN  IF msg.role \notin {"user", "assistant"} THEN rest
             ELSE IF msg.role = "assistant" /\ msg.kind = "web_results" THEN rest
             ELSE <<msg>> \o rest

\* on_search_web_clicked as it would be if it started the model worker
\* together with the search worker instead of waiting for the search.
on_search_web_clicked_Eager(typed) ==
    LET chat == current_chat
        raw_message == Strip(typed)
    IN  IF chat = 0 \/ ~send_enabled \/ llm_busy THEN Returned("busy")
        ELSE IF raw_message = <<>> THEN Returned("blank")
        ELSE LET o1 == append_html(objs, "user", raw_message)
                 o2 == [o1 EXCEPT ![chat].history =
                            Append(@, Msg("user", raw_message, ""))]
             IN  /\ quota.turns > 0
                 /\ objs' = o2
                 /\ llm_busy' = TRUE
                 /\ send_enabled' = FALSE
                 /\ workers' = workers \o
                        <<NewWorker("search", "search", <<>>, 0,
                                    PlannerHistory(o2[chat].history), raw_message,
                                    o2[chat].model),
                          NewWorker("model", "search", o2[chat].history, chat,
                                    <<>>, <<>>, o2[chat].model)>>
                 /\ turn' = [n |-> turn.n + 1, chat |-> chat, text |-> raw_message,
                             path |-> "search", base |-> Len(objs[chat].history),
                             ws |-> settings.web_search, appended |-> 1]
                 /\ log' = <<"search_dispatch">>
                 /\ early_return' = ""
                 /\ UNCHANGED <<list_row, disk>>
                 /\ quota' = [quota EXCEPT !.turns = @ - 1]
                 /\ UNCHANGED <<chats, current_chat_index, default_model_name,
                                settings>>

on_search_web_clicked(typed) ==
    LET chat == current_chat
        raw_message == Strip(typed)
    IN  IF chat = 0 \/ ~send_enabled \/ llm_busy THEN Returned("busy")
        ELSE IF raw_message = <<>> THEN Returned("blank")
        ELSE LET o1 == append_html(objs, "user", raw_message)
                 o2 == [o1 EXCEPT ![chat].history =
                            Append(@, Msg("user", raw_message, ""))]
             IN  /\ quota.turns > 0
                 /\ objs' = o2
                 /\ llm_busy' = TRUE
                 /\ send_enabled' = FALSE
                 /\ workers' = Append(workers,
                        NewWorker("search", "search", <<>>, 0,
                                  PlannerHistory(o2[chat].history), raw_message,
                                  o2[chat].model))
                 /\ turn' = [n |-> turn.n + 1, chat |-> chat, text |-> raw_message,
                             path |-> "search", base |-> Len(objs[chat].history),
                             ws |-> settings.web_search, appended |-> 1]
                 /\ log' = <<"search_dispatch">>
                 /\ early_return' = ""
                 /\ UNCHANGED <<list_row, disk>>
                 /\ quota' = [quota EXCEPT !.turns = @ - 1]
                 /\ UNCHANGED <<chats, current_chat_index, default_model_name,
                                settings>>

\* on_send_clicked as it would be without its two early returns on the Send
\* button and on llm_busy (the direct path then runs whenever a chat exists).
on_send_clicked_Unguarded(typed, search_checked) ==
    LET chat == current_chat
        text == Strip(typed)
    IN  IF chat = 0 THEN Returned("busy")
        ELSE IF text = <<>> THEN Returned("blank")
        ELSE IF search_checked THEN on_search_web_clicked(typed)
        ELSE LET o1 == append_html(objs, "user", text)
                 o2 == [o1 EXCEPT ![chat].history = Append(@, Msg("user", text, ""))]
             IN  /\ quota.turns > 0
                 /\ objs' = o2
                 /\ llm_busy' = TRUE
                 /\ send_enabled' = FALSE
                 /\ workers' = Append(workers,
                        NewWorker("model", "direct", o2[chat].history, 0, <<>>, <<>>,
                                  o2[chat].model))
                 /\ turn' = [n |-> turn.n + 1, chat |-> chat, text |-> text,
                             path |-> "direct", base |-> Len(objs[chat].history),
                             ws |-> settings.web_search, appended |-> 1]
                 /\ log' = <<"model_dispatch">>
                 /\ early_return' = ""
                 /\ UNCHANGED <<list_row, disk>>
                 /\ quota' = [quota EXCEPT !.turns = @ - 1]
                 /\ UNCHANGED <<chats, current_chat_index, default_model_name,
                                settings>>

\* on_send_clicked as it would be without its test for an empty text on the
\* direct path.
on_send_clicked_NoBlankTest(typed, search_checked) ==
    LET chat == current_chat
        text == Strip(typed)
    IN  IF chat = 0 \/ ~send_enabled THEN Returned("busy")
        ELSE IF llm_busy THEN Returned("busy")
        ELSE IF search_checked THEN on_search_web_clicked(typed)
        ELSE LET o1 == append_html(objs, "user", text)
                 o2 == [o1 EXCEPT ![chat].history = Append(@, Msg("user", text, ""))]
             IN  /\ quota.turns > 0
                 /\ objs' = o2
                 /\ llm_busy' = TRUE
                 /\ send_enabled' = FALSE
                 /\ workers' = Append(workers,
                        NewWorker("model", "direct", o2[chat].history, 0, <<>>, <<>>,
                                  o2[chat].model))
                 /\ turn' = [n |-> turn.n + 1, chat |-> chat, text |-> text,
                             path |-> "direct", base |-> Len(objs[chat].history),
                             ws |-> settings.web_search, appended |-> 1]
                 /\ log' = <<"model_dispatch">>
                 /\ early_return' = ""
                 /\ UNCHANGED <<list_row, disk>>
                 /\ quota' = [quota EXCEPT !.turns = @ - 1]
                 /\ UNCHANGED <<chats, current_chat_index, default_model_name,
                                settings>>

on_send_clicked(typed, search_checked) ==
    LET chat == current_chat
        text == Strip(typed)
    IN  IF chat = 0 \/ ~send_enabled THEN Returned("busy")
        ELSE IF llm_busy THEN Returned("busy")
        ELSE IF text = <<>> THEN Returned("blank")
        ELSE IF search_checked THEN on_search_web_clicked(typed)
        ELSE LET o1 == append_html(objs, "user", text)
                 o2 == [o1 EXCEPT ![chat].history = Append(@, Msg("user", text, ""))]
             IN  /\ quota.turns > 0
                 /\ objs' = o2
                 /\ llm_busy' = TRUE
                 /\ send_enabled' = FALSE
                 /\ workers' = Append(workers,
                        NewWorker("model", "direct", o2[chat].history, 0, <<>>, <<>>,
                                  o2[chat].model))
                 /\ turn' = [n |-> turn.n + 1, chat |-> chat, text |-> text,
                             path |-> "direct", base |-> Len(objs[chat].history),
                             ws |-> settings.web_search, appended |-> 1]
                 /\ log' = <<"model_dispatch">>
                 /\ early_return' = ""
                 /\ UNCHANGED <<list_row, disk>>
                 /\ quota' = [quota EXCEPT !.turns = @ - 1]
                 /\ UNCHANGED <<chats, current_chat_index, default_model_name,
                                settings>>

\* ------------------------------------------------------------------------
\* Leaf helpers used on the worker threads
\* ------------------------------------------------------------------------
TitleLimit == 80
ExcerptLimit == 400

Take(s, n) == SubSeq(s, 1, Min(n, Len(s)))

RECURSIVE Join(_, _)
Join(parts, sep) ==
    IF parts = <<>> THEN <<>>
    ELSE IF Len(parts) = 1 THEN parts[1]
    ELSE parts[1] \o sep \o Join(Tail(parts), sep)

ReplaceNewlines(s) == [k \in 1..Len(s) |-> IF s[k] = "\n" THEN " " ELSE s[k]]

\* Normalize as it would be if every role were sent as it is stored
Normalize_KeepRole(history) ==
    [k \in 1..Len(history) |->
        [role |-> history[k].role, content |-> history[k].content]]

\* Worker.run: role normalisation of the history into the request messages
Normalize(history) ==
    [k \in 1..Len(history) |->
        [role |-> IF history[k].role \in {"system", "user", "assistant"}
                  THEN history[k].role ELSE "user",
         content |-> history[k].content]]

\* search_web: parsing of the upstream records, cut at num_results
RECURSIVE ParseResults(_, _, _)
ParseResults(raw_results, results, num_results) ==
    IF raw_results = <<>> THEN results
    ELSE LET item == Head(raw_results)
             title == Strip(item.title)
             url == Strip(item.url)
             snippet == Strip(item.snippet)
         IN  IF url = <<>> THEN ParseResults(Tail(raw_results), results, num_results)
             ELSE LET r2 == Append(results,
                                Rec(IF title = <<>> THEN url ELSE title, url, snippet))
                  IN  IF Len(r2) >= num_results THEN r2
                      ELSE ParseResults(Tail(raw_results), r2, num_results)

\* fetch_page_text: the visible text cut to max_chars, with the marker
FetchText(text, max_chars) ==
    IF text = <<>> THEN <<>>
    ELSE IF max_chars > 0 /\ Len(text) > max_chars
    THEN Take(text, max_chars) \o <<" ...">>
    ELSE text

\* WebSearchWorker.run, loop body: the markdown piece and the context block
\* of result i
MdPiece(i, item, page_text) ==
    LET title == IF Strip(item.title) = <<>> THEN <<"Result ", Digit(i)>>
                 ELSE Strip(item.title)
        url == Strip(item.url)
        snippet == Strip(item.snippet)
    IN  (IF url # <<>> THEN <<Digit(i), ". ", "[">> \o title \o <<"](">> \o url \o <<")">>
         ELSE <<Digit(i), ". ">> \o title)
        \o (IF snippet # <<>> THEN <<"\n">> \o snippet ELSE <<>>)
        \o (IF page_text # <<>>
            THEN <<"\n", "\n", "> ">> \o ReplaceNewlines(Take(page_text, ExcerptLimit))
            ELSE <<>>)

ContextBlock(i, item, page_text) ==
    LET title == IF Strip(item.title) = <<>> THEN <<"Result ", Digit(i)>>
                 ELSE Strip(item.title)
        url == Strip(item.url)
        snippet == Strip(item.snippet)
    IN  <<"Result ", Digit(i), ": ">> \o title \o <<"\n", "URL: ">> \o url
        \o (IF snippet # <<>> THEN <<"\n", "Snippet: ">> \o snippet ELSE <<>>)
        \o (IF page_text # <<>> THEN <<"\n", "Content:", "\n">> \o page_text ELSE <<>>)

\* _get_first_user_message
RECURSIVE _get_first_user_message(_)
_get_first_user_message(history) ==
    IF history = <<>> THEN <<>>
    ELSE IF history[1].role = "user" /\ Strip(history[1].content) # <<>>
    THEN Strip(history[1].content)
    ELSE _get_first_user_message(Tail(history))

RECURSIVE FirstLine(_)
FirstLine(s) ==
    IF s = <<>> \/ Head(s) = "\n" THEN <<>> ELSE <<Head(s)>> \o FirstLine(Tail(s))

\* _fallback_title
_fallback_title(first_msg) ==
    IF first_msg = <<>> THEN <<"New chat">>
    ELSE LET line == FirstLine(Strip(first_msg))
             text == IF Len(line) > TitleLimit THEN RStrip(Take(line, TitleLimit)) ELSE line
         IN  IF text = <<>> THEN <<"New chat">> ELSE text

\* build_chat_title, after the response text was extracted
TitleFromContent(content, first_msg) ==
    LET raw_content == Strip(content)
        t1 == Strip(ReplaceNewlines(raw_content))
        quoted == Len(t1) >= 1 /\ t1[1] = t1[Len(t1)] /\ t1[1] \in {"\"", "'"}
        t2 == IF quoted THEN Strip(SubSeq(t1, 2, Len(t1) - 1)) ELSE t1
        t3 == IF Len(t2) > TitleLimit THEN RStrip(Take(t2, TitleLimit)) ELSE t2
    IN  IF raw_content = <<>> THEN _fallback_title(first_msg)
        ELSE IF t3 = <<>> THEN _fallback_title(first_msg) ELSE t3

\* ------------------------------------------------------------------------
\* WebSearchWorker.run (search thread)
\* ------------------------------------------------------------------------
WorkerStep(i, w, lg) ==
    /\ workers' = [workers EXCEPT ![i] = w]
    /\ log' = lg
    /\ UNCHANGED <<objs, chats, current_chat_index, default_model_name, llm_busy,
                   send_enabled, settings, turn, early_return, quota, list_row,
                   disk>>

\* search_web is entered with the query: an empty query raises before any
\* request is made, and the worker's handler turns that into the error signal.
\* The exception is the ValueError of search_web's first statement.
EnterSearch(w, query) ==
    IF query = <<>>
    THEN [w EXCEPT !.search_query = query, !.pc = "error",
                   !.out = <<"search_web() got empty query">>,
                   !.raised = "ValueError"]
    ELSE [w EXCEPT !.search_query = query, !.pc = "search_call"]

\* The loop over results[:max_pages] from item k on: it stops inside the
\* page fetch of the first item that has a url, or emits finished.
RECURSIVE EnterItem(_, _)
EnterItem(w, k) ==
    LET items == Take(w.results, w.ws.max_pages) IN
    IF k > Len(items) THEN [w EXCEPT !.pc = "finished", !.i = 0]
    ELSE IF Strip(items[k].url) # <<>> THEN [w EXCEPT !.pc = "fetch_call", !.i = k]
    ELSE EnterItem([w EXCEPT !.md_lines = Append(@, MdPiece(k, items[k], <<>>)),
                             !.context_blocks = Append(@, ContextBlock(k, items[k], <<>>))],
                   k + 1)

StageOf(w) ==
    IF w.pc = "fetch_call" THEN <<"fetch_begin">>
    ELSE IF w.pc = "search_call" THEN <<"search_begin">>
    ELSE <<>>

SW_run(i) ==
    /\ workers[i].kind = "search" /\ workers[i].pc = "created"
    /\ LET w0 == [workers[i] EXCEPT !.ws = load_web_settings] IN
       IF w0.ws.use_planner
       THEN IF Strip(w0.raw_message) = <<>>
            THEN WorkerStep(i, EnterSearch(w0, <<>>), log)
            ELSE WorkerStep(i, [w0 EXCEPT !.pc = "planner_call"],
                            Append(log, "planner_begin"))
       ELSE LET w1 == EnterSearch(w0, w0.raw_message) IN
            WorkerStep(i, w1, log \o StageOf(w1))

\* SW_planner_end as it would be if a planner failure ended the worker
SW_planner_end_AbortOnFailure(i, outcome, content) ==
    /\ workers[i].kind = "search" /\ workers[i].pc = "planner_call"
    /\ LET w == workers[i]
           w1 == IF outcome \in {"raise", "fail"}
                 THEN [w EXCEPT !.pc = "error", !.out = <<"<exception>">>]
                 ELSE EnterSearch(w, IF Strip(content) = <<>> THEN Strip(w.raw_message)
                                     ELSE Strip(content))
       IN  WorkerStep(i, w1, Append(log, "planner_end") \o StageOf(w1))

\* SW_planner_end as it would be if build_search_query returned the planner's
\* content as it is, without the fallback for a response that holds none
SW_planner_end_NoBlankFallback(i, outcome, content) ==
    /\ workers[i].kind = "search" /\ workers[i].pc = "planner_call"
    /\ LET w == workers[i]
           latest_user_text == Strip(w.raw_message)
           query == IF outcome = "raise" THEN w.raw_message
                    ELSE IF outcome = "fail" THEN latest_user_text
                    ELSE Strip(content)
           w1 == EnterSearch(w, query)
       IN  WorkerStep(i, w1, Append(log, "planner_end") \o StageOf(w1))

\* build_search_query returns: "fail" is a request that failed, "ok" a parsed
\* response carrying content, "raise" an exception that escapes the planner.
SW_planner_end(i, outcome, content) ==
    /\ workers[i].kind = "search" /\ workers[i].pc = "planner_call"
    /\ LET w == workers[i]
           latest_user_text == Strip(w.raw_message)
           query == IF outcome = "raise" THEN w.raw_message
                    ELSE IF outcome = "fail" THEN latest_user_text
                    ELSE IF Strip(content) = <<>> THEN latest_user_text
                    ELSE Strip(content)
           w1 == EnterSearch(w, query)
       IN  WorkerStep(i, w1, Append(log, "planner_end") \o StageOf(w1))

\* SW_search_end as it would be without the test for an empty result list
SW_search_end_NoEmptyTest(i, outcome, raw_results) ==
    /\ workers[i].kind = "search" /\ workers[i].pc = "search_call"
    /\ LET w == workers[i] IN
       IF outcome = "fail"
       THEN WorkerStep(i, [w EXCEPT !.pc = "error", !.out = <<"SearXNG request failed: ">>,
                                    !.raised = "SearchError"],
                       Append(log, "search_end"))
       ELSE IF outcome = "not_object"
       THEN WorkerStep(i, [w EXCEPT !.pc = "error",
                                    !.out = <<"object has no attribute 'get'">>,
                                    !.raised = "AttributeError"],
                       Append(log, "search_end"))
       ELSE LET results == ParseResults(raw_results, <<>>, w.ws.max_results)
                w1 == EnterItem([w EXCEPT !.results = results], 1)
            IN  WorkerStep(i, w1, Append(log, "search_end") \o StageOf(w1))

\* search_web returns or raises: "fail" is a request that failed, a status
\* that is not a success or a body that is not JSON (all three raised again
\* as SearchError); "not_object" is a JSON body that is not an object, on
\* which data.get raises outside the try; "ok" is an object with its records.
SW_search_end(i, outcome, raw_results) ==
    /\ workers[i].kind = "search" /\ workers[i].pc = "search_call"
    /\ LET w == workers[i] IN
       IF outcome = "fail"
       THEN WorkerStep(i, [w EXCEPT !.pc = "error", !.out = <<"SearXNG request failed: ">>,
                                    !.raised = "SearchError"],
                       Append(log, "search_end"))
       ELSE IF outcome = "not_object"
       THEN WorkerStep(i, [w EXCEPT !.pc = "error",
                                    !.out = <<"object has no attribute 'get'">>,
                                    !.raised = "AttributeError"],
                       Append(log, "search_end"))
       ELSE LET results == ParseResults(raw_results, <<>>, w.ws.max_results) IN
            IF results = <<>>
            THEN WorkerStep(i, [w EXCEPT !.pc = "error",
                                         !.out = <<"Web search returned no results.">>],
                            Append(log, "search_end"))
            ELSE LET w1 == EnterItem([w EXCEPT !.results = results], 1) IN
                 WorkerStep(i, w1, Append(log, "search_end") \o StageOf(w1))

SW_fetch_end(i, text) ==
    /\ workers[i].kind = "search" /\ workers[i].pc = "fetch_call"
    /\ LET w == workers[i]
           item == w.results[w.i]
           page_text == FetchText(text, w.ws.max_chars_per_page)
           w1 == EnterItem([w EXCEPT
                              !.md_lines = Append(@, MdPiece(w.i, item, page_text)),
                              !.context_blocks =
                                  Append(@, ContextBlock(w.i, item, page_text))],
                           w.i + 1)
       IN  WorkerStep(i, w1, Append(log, "fetch_end") \o StageOf(w1))

\* ------------------------------------------------------------------------
\* Worker.run (model thread)
\* ------------------------------------------------------------------------
\* The list the worker iterates: its own copy, or the chat's live list
WorkerHistory(w) == IF w.ref # 0 THEN objs[w.ref].history ELSE w.hist

MW_run(i) ==
    /\ workers[i].kind = "model" /\ workers[i].pc = "created"
    /\ WorkerStep(i, [workers[i] EXCEPT !.messages = Normalize(WorkerHistory(workers[i])),
                                        !.pc = "model_call"],
                  Append(log, "model_begin"))

\* MW_end as it would be if the worker itself appended the reply to the
\* history of the turn's chat
MW_end_AppendsReply(i, outcome, content) ==
    /\ workers[i].kind = "model" /\ workers[i].pc = "model_call"
    /\ workers' = [workers EXCEPT ![i] =
                      IF outcome = "ok"
                      THEN [@ EXCEPT !.pc = "finished", !.out = Strip(content)]
                      ELSE [@ EXCEPT !.pc = "error", !.out = <<"<exception>">>]]
    /\ objs' = IF outcome = "ok" /\ Strip(content) # <<>> /\ turn.chat # 0
               THEN [objs EXCEPT ![turn.chat].history =
                        Append(@, Msg("assistant", Strip(content), ""))]
               ELSE objs
    /\ log' = Append(log, "model_end")
    /\ UNCHANGED <<chats, current_chat_index, default_model_name, llm_busy,
                   send_enabled, settings, turn, early_return, quota, list_row,
                   disk>>

MW_end(i, outcome, content) ==
    /\ workers[i].kind = "model" /\ workers[i].pc = "model_call"
    /\ IF outcome = "ok"
       THEN WorkerStep(i, [workers[i] EXCEPT !.pc = "finished", !.out = Strip(content)],
                       Append(log, "model_end"))
       ELSE WorkerStep(i, [workers[i] EXCEPT !.pc = "error", !.out = <<"<exception>">>],
                       Append(log, "model_end"))

\* ------------------------------------------------------------------------
\* TitleWorker.run (title thread)
\* ------------------------------------------------------------------------
TW_run(i) ==
    /\ workers[i].kind = "title" /\ workers[i].pc = "created"
    /\ LET first_msg == _get_first_user_message(workers[i].hist) IN
       IF first_msg = <<>>
       THEN WorkerStep(i, [workers[i] EXCEPT !.pc = "finished", !.out = <<>>], log)
       ELSE WorkerStep(i, [workers[i] EXCEPT !.pc = "title_call", !.first_msg = first_msg],
                       Append(log, "title_begin"))

TW_end(i, outcome, content) ==
    /\ workers[i].kind = "title" /\ workers[i].pc = "title_call"
    /\ LET w == workers[i] IN
       IF outcome = "raise"
       THEN WorkerStep(i, [w EXCEPT !.pc = "error", !.out = <<"<exception>">>],
                       Append(log, "title_end"))
       ELSE IF outcome = "fail"
       THEN WorkerStep(i, [w EXCEPT !.pc = "finished", !.out = _fallback_title(w.first_msg)],
                       Append(log, "title_end"))
       ELSE WorkerStep(i, [w EXCEPT !.pc = "finished",
                                    !.out = TitleFromContent(content, w.first_msg)],
                       Append(log, "title_end"))

\* ------------------------------------------------------------------------
\* Coordinator: completion handlers (queued signals of the workers)
\* ------------------------------------------------------------------------
Emitted(i, kind, pc) == workers[i].kind = kind /\ workers[i].pc = pc

\* The WebResults text built by on_web_search_finished
SearchContext(raw_message, search_query, context_blocks) ==
    <<"Web search results and page content.", "\n", "Original user message: ">>
    \o raw_message \o <<"\n", "Search query used: ">> \o search_query \o <<"\n", "\n">>
    \o (IF context_blocks # <<>> THEN Join(context_blocks, <<"\n", "\n", "\n">>)
        ELSE <<"No usable page content found.">>)

MdBlock(md_lines) ==
    IF md_lines # <<>> THEN Join(md_lines, <<"\n", "\n", "---", "\n", "\n">>)
    ELSE <<"_no results_">>

on_web_search_finished(i) ==
    /\ Emitted(i, "search", "finished")
    /\ early_return' = ""
    /\ UNCHANGED <<list_row, disk>>
    /\ UNCHANGED <<chats, current_chat_index, default_model_name, settings, quota>>
    /\ LET w == workers[i]
           chat == current_chat
           rest == RemoveAt(workers, i)
       IN  IF chat = 0
           THEN /\ _finish_llm_cycle
                /\ workers' = rest
                /\ UNCHANGED <<objs, log, turn>>
           ELSE LET ws == load_web_settings
                    o1 == IF ws.show_query
                          THEN append_html(objs, "system",
                                           <<"[web search query] ">> \o w.search_query)
                          ELSE objs
                    o2 == [o1 EXCEPT ![chat].html =
                              Append(@, Frag("web_links", MdBlock(w.md_lines)))]
                    o3 == [o2 EXCEPT ![chat].history =
                              Append(@, Msg("assistant",
                                            SearchContext(w.raw_message, w.search_query,
                                                          w.context_blocks),
                                            "web_results"))]
                    o4 == IF ws.strict_web_only
                          THEN [o3 EXCEPT ![chat].history =
                                   Append(@, Msg("system", WebFollowup, ""))]
                          ELSE o3
                IN  /\ objs' = o4
                    /\ turn' = [turn EXCEPT !.appended =
                                    @ + (IF ws.strict_web_only THEN 2 ELSE 1)]
                    /\ workers' = Append(rest, NewWorker("model", "search",
                                                         o4[chat].history, chat,
                                                         <<>>, <<>>, o4[chat].model))
                    /\ log' = log \o <<"assemble", "model_dispatch">>
                    /\ UNCHANGED <<llm_busy, send_enabled>>

on_web_search_error(i) ==
    /\ Emitted(i, "search", "error")
    /\ objs' = append_html(objs, "system", <<"Web search error: ">> \o workers[i].out)
    /\ _finish_llm_cycle
    /\ workers' = RemoveAt(workers, i)
    /\ early_return' = ""
    /\ UNCHANGED <<list_row, disk>>
    /\ UNCHANGED <<chats, current_chat_index, default_model_name, settings, turn, log, quota>>

\* on_reply_ready as it would be if it put the reply in the place of the last
\* entry of the history instead of after it.
on_reply_ready_OverLastEntry(i) ==
    /\ Emitted(i, "model", "finished")
    /\ LET chat == current_chat
           full == Strip(workers[i].out)
           o1 == IF chat # 0 /\ full # <<>>
                 THEN append_html([objs EXCEPT ![chat].history =
                                      [@ EXCEPT ![Len(@)] = Msg("assistant", full, "")]],
                                  "assistant", full)
                 ELSE objs
       IN  /\ objs' = o1
           /\ turn' = [turn EXCEPT !.appended =
                           @ + (IF chat # 0 /\ full # <<>> THEN 1 ELSE 0)]
           /\ _start_title_planner_if_needed(o1, RemoveAt(workers, i), log)
    /\ early_return' = ""
    /\ UNCHANGED <<list_row, disk>>
    /\ UNCHANGED <<chats, current_chat_index, default_model_name, settings, quota>>

on_reply_ready(i) ==
    /\ Emitted(i, "model", "finished")
    /\ LET chat == current_chat
           full == Strip(workers[i].out)
           o1 == IF chat # 0 /\ full # <<>>
                 THEN append_html([objs EXCEPT ![chat].history =
                                      Append(@, Msg("assistant", full, ""))],
                                  "assistant", full)
                 ELSE objs
       IN  /\ objs' = o1
           /\ turn' = [turn EXCEPT !.appended =
                           @ + (IF chat # 0 /\ full # <<>> THEN 1 ELSE 0)]
           /\ _start_title_planner_if_needed(o1, RemoveAt(workers, i), log)
    /\ early_return' = ""
    /\ UNCHANGED <<list_row, disk>>
    /\ UNCHANGED <<chats, current_chat_index, default_model_name, settings, quota>>

\* on_reply_error as it would be if it took back the last entry of the
\* active chat's history.
on_reply_error_Rollback(i) ==
    /\ Emitted(i, "model", "error")
    /\ LET chat == current_chat
           o1 == IF chat # 0 /\ objs[chat].history # <<>>
                 THEN [objs EXCEPT ![chat].history = SubSeq(@, 1, Len(@) - 1)]
                 ELSE objs
       IN  objs' = append_html(o1, "system", <<"ERROR: ">> \o workers[i].out)
    /\ _finish_llm_cycle
    /\ workers' = RemoveAt(workers, i)
    /\ early_return' = ""
    /\ UNCHANGED <<list_row, disk>>
    /\ UNCHANGED <<chats, current_chat_index, default_model_name, settings, turn, log, quota>>

on_reply_error(i) ==
    /\ Emitted(i, "model", "error")
    /\ objs' = append_html(objs, "system", <<"ERROR: ">> \o workers[i].out)
    /\ _finish_llm_cycle
    /\ workers' = RemoveAt(workers, i)
    /\ early_return' = ""
    /\ UNCHANGED <<list_row, disk>>
    /\ UNCHANGED <<chats, current_chat_index, default_model_name, settings, turn, log, quota>>

\* on_title_ready as it would be without the test for an empty title
on_title_ready_Unconditional(i) ==
    /\ Emitted(i, "title", "finished")
    /\ LET new_title == Strip(workers[i].out)
           chat == current_chat
       IN  objs' = IF chat # 0
                   THEN [objs EXCEPT ![chat].title = new_title]
                   ELSE objs
    /\ _finish_llm_cycle
    /\ workers' = RemoveAt(workers, i)
    /\ early_return' = ""
    /\ UNCHANGED <<list_row, disk>>
    /\ UNCHANGED <<chats, current_chat_index, default_model_name, settings, turn, log, quota>>

on_title_ready(i) ==
    /\ Emitted(i, "title", "finished")
    /\ LET new_title == Strip(workers[i].out)
           chat == current_chat
       IN  objs' = IF chat # 0 /\ new_title # <<>>
                   THEN [objs EXCEPT ![chat].title = new_title]
                   ELSE objs
    /\ _finish_llm_cycle
    /\ workers' = RemoveAt(workers, i)
    /\ early_return' = ""
    /\ UNCHANGED <<list_row, disk>>
    /\ UNCHANGED <<chats, current_chat_index, default_model_name, settings, turn, log, quota>>

\* on_title_error as it would be without its call of _finish_llm_cycle
on_title_error_NoFinish(i) ==
    /\ Emitted(i, "title", "error")
    /\ workers' = RemoveAt(workers, i)
    /\ early_return' = ""
    /\ UNCHANGED <<list_row, disk>>
    /\ UNCHANGED <<objs, chats, current_chat_index, default_model_name, settings, turn,
                   log, quota, llm_busy, send_enabled>>

on_title_error(i) ==
    /\ Emitted(i, "title", "error")
    /\ _finish_llm_cycle
    /\ workers' = RemoveAt(workers, i)
    /\ early_return' = ""
    /\ UNCHANGED <<list_row, disk>>
    /\ UNCHANGED <<objs, chats, current_chat_index, default_model_name, settings, turn,
                   log, quota>>

\* ------------------------------------------------------------------------
\* Specification
\* ------------------------------------------------------------------------
W == 1..Len(workers)

Next ==
    \/ \E typed \in RawInputs, search_checked \in BOOLEAN :
           on_send_clicked(typed, search_checked)
    \/ \E row \in 0..(Len(chats) - 1) : currentRowChanged(row)
    \/ on_new_chat_clicked
    \/ \E row \in -1..Len(chats) : _delete_chat_at(row)
    \/ \E row \in 0..(Len(chats) - 1), typed \in RenameInputs, ok \in BOOLEAN :
           _rename_chat_at(row, typed, ok)
    \/ \E text \in AVAILABLE_MODELS : on_model_changed(text)
    \/ \E choice \in SettingsChoices : on_save_clicked(choice)
    \/ \E i \in W : SW_run(i)
    \/ \E i \in W, r \in PlannerResponses : SW_planner_end(i, r.outcome, r.content)
    \/ \E i \in W, r \in SearchResponses : SW_search_end(i, r.outcome, r.content)
    \/ \E i \in W, text \in PageTexts : SW_fetch_end(i, text)
    \/ \E i \in W : MW_run(i)
    \/ \E i \in W, r \in ModelResponses : MW_end(i, r.outcome, r.content)
    \/ \E i \in W : TW_run(i)
    \/ \E i \in W, r \in TitleResponses : TW_end(i, r.outcome, r.content)
    \/ \E i \in W : on_web_search_finished(i)
    \/ \E i \in W : on_web_search_error(i)
    \/ \E i \in W : on_reply_ready(i)
    \/ \E i \in W : on_reply_error(i)
    \/ \E i \in W : on_title_ready(i)
    \/ \E i \in W : on_title_error(i)

Spec == Init /\ [][Next]_vars

\* The steps of the worker threads and the delivery of their queued signals
Progress ==
    \/ \E i \in W : SW_run(i) \/ MW_run(i) \/ TW_run(i)
    \/ \E i \in W, r \in PlannerResponses : SW_planner_end(i, r.outcome, r.content)
    \/ \E i \in W, r \in SearchResponses : SW_search_end(i, r.outcome, r.content)
    \/ \E i \in W, text \in PageTexts : SW_fetch_end(i, text)
    \/ \E i \in W, r \in ModelResponses : MW_end(i, r.outcome, r.content)
    \/ \E i \in W, r \in TitleResponses : TW_end(i, r.outcome, r.content)
    \/ \E i \in W : \/ on_web_search_finished(i) \/ on_web_search_error(i)
                     \/ on_reply_ready(i) \/ on_reply_error(i)
                     \/ on_title_ready(i) \/ on_title_error(i)

\* Every started thread runs, every network call returns (all of them have a
\* timeout) and every queued signal is delivered by the event loop.
\* The behaviours start with a quota of one turn less than Spec's.
InitLive == InitProgram /\ quota = [turns |-> MaxTurns - 1, events |-> MaxEvents]

FairSpec == InitLive /\ [][Next]_vars /\ WF_vars(Progress)

\* ------------------------------------------------------------------------
\* Persistence: core/chat_state.py and closeEvent
\* ------------------------------------------------------------------------
\* str.splitlines on "\n": the lines, without an empty line after a final "\n"
RECURSIVE SplitFrom(_, _, _)
SplitFrom(s, k, cur) ==
    IF k > Len(s) THEN (IF cur = <<>> THEN <<>> ELSE <<cur>>)
    ELSE IF s[k] = "\n" THEN <<cur>> \o SplitFrom(s, k + 1, <<>>)
    ELSE SplitFrom(s, k + 1, Append(cur, s[k]))

SplitLines(s) == SplitFrom(s, 1, <<>>)

\* line.startswith("Result ") and ": " in line, for a stripped line.  The
\* atoms "Result ", ": " and "URL: " end with a blank that strip() removes
\* when the atom ends the line, so such an atom counts only if text follows.
IsResultLine(line) ==
    /\ Len(line) > 1 /\ line[1] = "Result "
    /\ \E k \in 1..(Len(line) - 1) : line[k] = ": "

\* line.split(": ", 1)[1].strip()
RECURSIVE AfterColon(_)
AfterColon(line) ==
    IF line = <<>> THEN <<>>
    ELSE IF Head(line) = ": " THEN Strip(Tail(line))
    ELSE AfterColon(Tail(line))

\* line.startswith("URL: "), for a stripped line
IsUrlLine(line) == Len(line) > 1 /\ line[1] = "URL: "

Link(title, url) == <<"- [">> \o title \o <<"](">> \o url \o <<")">>

\* The loop as it would be if a URL line did not clear current_title
RECURSIVE ShrinkScan_NoReset(_, _, _)
ShrinkScan_NoReset(lines, current_title, links) ==
    IF lines = <<>> THEN links
    ELSE LET line == Strip(Head(lines)) IN
         IF IsResultLine(line)
         THEN ShrinkScan_NoReset(Tail(lines), AfterColon(line), links)
         ELSE IF IsUrlLine(line) /\ current_title # <<>>
         THEN LET url == Strip(Tail(line)) IN
              ShrinkScan_NoReset(Tail(lines), current_title,
                                 IF url # <<>>
                                 THEN Append(links, Link(current_title, url))
                                 ELSE links)
         ELSE ShrinkScan_NoReset(Tail(lines), current_title, links)

\* _shrink_web_results, the loop: current_title is <<>> for None
RECURSIVE ShrinkScan(_, _, _)
ShrinkScan(lines, current_title, links) ==
    IF lines = <<>> THEN links
    ELSE LET line == Strip(Head(lines)) IN
         IF IsResultLine(line)
         THEN ShrinkScan(Tail(lines), AfterColon(line), links)
         ELSE IF IsUrlLine(line) /\ current_title # <<>>
         THEN LET url == Strip(Tail(line)) IN
              ShrinkScan(Tail(lines), <<>>,
                         IF url # <<>> THEN Append(links, Link(current_title, url))
                         ELSE links)
         ELSE ShrinkScan(Tail(lines), current_title, links)

NoSources == <<"Web search sources: (none)">>

SourcesHeader == <<"Web search sources:", "\n", "\n">>

_shrink_web_results(content) ==
    LET links == ShrinkScan(SplitLines(content), <<>>, <<>>) IN
    IF links = <<>> THEN NoSources
    ELSE SourcesHeader \o Join(links, <<"\n">>)

\* The loop as it would be if it compacted web_links messages again
SaveHistory_Recompact(history) ==
    [k \in 1..Len(history) |->
        IF history[k].kind \in {"web_results", "web_links"}
        THEN Msg(history[k].role, _shrink_web_results(history[k].content), "web_links")
        ELSE history[k]]

\* save_chats, the loop over one history: a web_results message is copied,
\* compacted and relabelled; every other message is written as it is
SaveHistory(history) ==
    [k \in 1..Len(history) |->
        IF history[k].kind = "web_results"
        THEN Msg(history[k].role, _shrink_web_results(history[k].content), "web_links")
        ELSE history[k]]

\* save_chats: the document written to chats.json
save_chats(chat_list, current_index) ==
    [chats |-> [k \in 1..Len(chat_list) |->
                   [title |-> chat_list[k].title,
                    model |-> chat_list[k].model,
                    history |-> SaveHistory(chat_list[k].history)]],
     current_index |-> current_index]

\* A chats.json that json.loads rejects (a write that failed half way)
Corrupt == [text |-> "<not json>"]

\* A chats.json that read_text cannot read (permissions, encoding)
Unreadable == [text |-> "<unreadable>"]

\* The cleanup of load_chats as it would be if it dropped web_links messages too
RECURSIVE DropWebResults_AlsoLinks(_)
DropWebResults_AlsoLinks(history) ==
    IF history = <<>> THEN <<>>
    ELSE IF Head(history).kind \in {"web_results", "web_links"}
    THEN DropWebResults_AlsoLinks(Tail(history))
    ELSE <<Head(history)>> \o DropWebResults_AlsoLinks(Tail(history))

RECURSIVE DropWebResults(_)
DropWebResults(history) ==
    IF history = <<>> THEN <<>>
    ELSE IF Head(history).kind = "web_results" THEN DropWebResults(Tail(history))
    ELSE <<Head(history)>> \o DropWebResults(Tail(history))

Max(a, b) == IF a > b THEN a ELSE b

\* The clamp of load_chats as it would be without its lower and upper limit
Clamp_None(current_index, n) == current_index

\* max(0, min(current_index, len(chats) - 1))
Clamp(current_index, n) == Max(0, Min(current_index, n - 1))

\* load_chats as it would be without its test for an empty chat list
load_chats_NoEmptyTest(file) ==
    IF file = NoFile THEN <<>>
    ELSE LET data == file[1] IN
         IF "chats" \notin DOMAIN data THEN <<>>
         ELSE LET current_index == IF "current_index" \in DOMAIN data
                                   THEN data.current_index ELSE 0
              IN  <<[chats |-> [k \in 1..Len(data.chats) |->
                                   [data.chats[k] EXCEPT
                                       !.history = DropWebResults(@)]],
                     current_index |-> Clamp(current_index, Len(data.chats))]>>

\* load_chats: <<>> for None, else the one pair (chats, current_index)
load_chats(file) ==
    IF file = NoFile THEN <<>>
    ELSE LET data == file[1] IN
         IF "chats" \notin DOMAIN data THEN <<>>
         ELSE IF data.chats = <<>> THEN <<>>
         ELSE LET current_index == IF "current_index" \in DOMAIN data
                                   THEN data.current_index ELSE 0
              IN  <<[chats |-> [k \in 1..Len(data.chats) |->
                                   [data.chats[k] EXCEPT
                                       !.history = DropWebResults(@)]],
                     current_index |-> Clamp(current_index, Len(data.chats))]>>

\* self.chats as the list of chat dicts
Collection == [k \in 1..Len(chats) |-> objs[chats[k]]]

\* closeEvent as it would be if save_chats compacted the messages in place
closeEvent_InPlace(outcome) ==
    /\ chats # <<>>
    /\ disk' = CASE outcome = "ok" -> <<save_chats(Collection, current_chat_index)>>
                 [] outcome = "fail_before" -> disk
                 [] outcome = "fail_during" -> <<Corrupt>>
    /\ objs' = [c \in 1..Len(objs) |->
                  [objs[c] EXCEPT !.history = SaveHistory(@)]]
    /\ UNCHANGED <<chats, current_chat_index, default_model_name, llm_busy,
                   send_enabled, settings, workers, turn, log, early_return, quota,
                   list_row>>

\* closeEvent: save_chats(self.chats, self.current_chat_index).  The write
\* succeeds, or save_chats catches an exception: before the file is opened
\* (the file is as it was) or while it is written (the file is cut short).
closeEvent(outcome) ==
    /\ chats # <<>>
    /\ disk' = CASE outcome = "ok" -> <<save_chats(Collection, current_chat_index)>>
                 [] outcome = "fail_before" -> disk
                 [] outcome = "fail_during" -> <<Corrupt>>
    /\ UNCHANGED <<objs, chats, current_chat_index, default_model_name, llm_busy,
                   send_enabled, settings, workers, turn, log, early_return, quota,
                   list_row>>

\* The next launch of the program: __init__ and _load_or_create_chats
_load_or_create_chats ==
    /\ LET loaded == load_chats(disk) IN
       IF loaded # <<>>
       THEN LET sel == setCurrentRow(loaded[1].current_index, -1, -1,
                                     Len(loaded[1].chats))
            IN  /\ objs' = [i \in 1..Len(loaded[1].chats) |->
                              [title |-> loaded[1].chats[i].title,
                               model |-> loaded[1].chats[i].model,
                               history |-> loaded[1].chats[i].history,
                               html |-> RebuildHtml(loaded[1].chats[i].history)]]
                /\ chats' = [i \in 1..Len(loaded[1].chats) |-> i]
                /\ list_row' = sel.list_row
                /\ current_chat_index' = sel.index
       ELSE /\ objs' = <<[make_new_chat(ChatTitle(1), DEFAULT_MODEL_NAME)
                            EXCEPT !.html = FirstRunHtml]>>
            /\ chats' = <<1>>
            /\ list_row' = 0
            /\ current_chat_index' = 0
    /\ default_model_name' = DEFAULT_MODEL_NAME
    /\ llm_busy' = FALSE
    /\ send_enabled' = TRUE
    /\ workers' = <<>>
    /\ turn' = [n |-> 0, chat |-> 0, text |-> <<>>, path |-> "", base |-> 0,
                ws |-> DEFAULT_WEB_SEARCH_SETTINGS, appended |-> 0]
    /\ log' = <<>>
    /\ early_return' = ""
    /\ UNCHANGED <<settings, quota, disk>>

\* ------------------------------------------------------------------------
\* Persistence: inputs and specification
\* ------------------------------------------------------------------------
MaxLines == 4

\* Lines a WebResults text is made of here: titles and URLs as
\* WebSearchWorker.run writes them, with and without surrounding blanks, a
\* URL line without a URL, a Result line without a title, and another line
WebLines ==
    {<<"Result ", "1", ": ", "t", "1">>,
     <<"Result ", "2", ": ", "t", "2", " ">>,
     <<"URL: ", "u", "1">>,
     <<" ", "URL: ", " ", "u", "2">>,
     <<"URL: ">>,
     <<"Result ", "3", ": ">>,
     <<"Snippet: ", "s">>}

\* Texts built by on_web_search_finished from the blocks of the search worker
BuiltContents ==
    {SearchContext(<<"a">>, <<"q">>,
                   <<ContextBlock(1, Rec(<<"t", "1">>, <<"u", "1">>, <<"s">>), <<"p">>),
                     ContextBlock(2, Rec(<<"u", "2">>, <<"u", "2">>, <<>>), <<>>)>>),
     SearchContext(<<"a">>, <<"a">>,
                   <<ContextBlock(1, Rec(<<"t", "1">>, <<"u", "1">>, <<>>), <<>>)>>),
     SearchContext(<<"a">>, <<"q">>, <<>>)}

WebContents ==
    {Join(ls, <<"\n">>) : ls \in UNION {[1..n -> WebLines] : n \in 0..MaxLines}}
    \cup BuiltContents

\* A chat of a running session whose turn used the web search
SearchedChat(content) ==
    LET history == <<Msg("system", SystemPrompt, ""), Msg("user", <<"a">>, ""),
                     Msg("assistant", content, "web_results"),
                     Msg("assistant", <<"r">>, "")>>
    IN  [title |-> ChatTitle(1), model |-> DEFAULT_MODEL_NAME, history |-> history,
         html |-> RebuildHtml(history)]

\* A chat loaded from an earlier save: its search turn is stored as links
ReloadedChat ==
    LET history == <<Msg("system", SystemPrompt, ""), Msg("user", <<"a">>, ""),
                     Msg("assistant",
                         SourcesHeader \o Link(<<"t", "1">>, <<"u", "1">>),
                         "web_links")>>
    IN  [title |-> <<"N", "o", "t", "e", "s">>, model |-> "mistral:latest",
         history |-> history, html |-> RebuildHtml(history)]

\* chats.json as another version or an editor may have left it: a
\* web_results message never compacted, with and without current_index
StoredChats ==
    <<[title |-> ChatTitle(1), model |-> DEFAULT_MODEL_NAME,
       history |-> <<Msg("system", SystemPrompt, ""), Msg("user", <<"a">>, ""),
                     Msg("assistant", <<"Result ", "1", ": ", "t", "\n", "URL: ", "u">>,
                         "web_results"),
                     Msg("assistant", <<"r">>, "")>>],
      [title |-> <<"N", "o", "t", "e", "s">>, model |-> "mistral:latest",
       history |-> <<Msg("system", SystemPrompt, ""),
                     Msg("assistant", NoSources, "web_links")>>]>>

StoredIndexes == {-2, 0, 1, 5}

PersistedDocs ==
    {[chats |-> SubSeq(StoredChats, 1, n), current_index |-> i] :
         n \in 0..2, i \in StoredIndexes}
    \cup {[chats |-> SubSeq(StoredChats, 1, n)] : n \in 1..2}
    \cup {Corrupt, Unreadable, [current_index |-> 0]}

\* Before the launch: no window yet, chats.json absent or as stored
InitPreLaunch ==
    /\ objs = <<>>
    /\ chats = <<>>
    /\ current_chat_index = -1
    /\ list_row = -1
    /\ disk \in {NoFile} \cup {<<d>> : d \in PersistedDocs}

\* A running session with one or two chats; the active index is one the
\* program can hold, the index past the end that a delete can leave included
InitRunning ==
    \E content \in WebContents, n \in 1..2 :
        /\ objs = SubSeq(<<SearchedChat(content), ReloadedChat>>, 1, n)
        /\ chats = [k \in 1..n |-> k]
        /\ current_chat_index \in 0..n
        /\ list_row = Min(current_chat_index, n - 1)
        /\ disk = NoFile

InitSave ==
    /\ InitCommon
    /\ quota = [turns |-> 0, events |-> 0]
    /\ (InitPreLaunch \/ InitRunning)

SaveNext ==
    \/ \E outcome \in {"ok", "fail_before", "fail_during"} : closeEvent(outcome)
    \/ _load_or_create_chats

SaveSpec == InitSave /\ [][SaveNext]_vars

\* ------------------------------------------------------------------------
\* The worker threads on their own: run() of Worker, WebSearchWorker and
\* TitleWorker, each on arguments drawn from bounded sets
\* ------------------------------------------------------------------------
MaxHist == 2
MaxBudget == 3

\* Roles a history entry can carry: the three the program writes, one other,
\* and "" for an entry that has no role (item.get("role", "user") of a
\* present but empty role takes the same branch as the other one)
DrawnRoles == {"system", "user", "assistant", "tool", ""}

\* A line of more than TitleLimit characters with a blank at the limit
LongLine == [k \in 1..(TitleLimit + 2) |-> IF k = TitleLimit THEN " " ELSE "x"]

DrawnMessages ==
    {Msg(role, <<"a">>, "") : role \in DrawnRoles}
    \cup {Msg(role, <<"w">>, "web_results") : role \in DrawnRoles}
    \cup {Msg(role, content, "") :
              role \in {"system", "user", "assistant"},
              content \in {<<" ">>, <<" ", "b", "\n", "c">>, LongLine}}

DrawnHistories ==
    UNION {[1..n -> DrawnMessages] : n \in 0..MaxHist}

\* self.raw_message of a search worker, and the query search_web is given
DrawnRawMessages == {<<>>, <<" ">>, <<"a">>}

\* web_search settings as WebSearchWorker.run reads them
DrawnWebSettings ==
    {[DEFAULT_WEB_SEARCH_SETTINGS EXCEPT
         !.use_planner = use_planner, !.max_results = max_results,
         !.max_pages = max_pages, !.max_chars_per_page = 1] :
         use_planner \in BOOLEAN, max_results \in 0..MaxBudget,
         max_pages \in 0..MaxBudget}

\* The upstream records of a search response
DrawnRecords ==
    {Rec(<<"t", "1">>, <<"u", "1">>, <<"s">>), Rec(<<"t", "3">>, <<" ">>, <<>>),
     Rec(<<>>, <<"u", "2">>, <<>>)}

DrawnUpstreamLists ==
    UNION {[1..n -> DrawnRecords] : n \in 0..MaxBudget}

DrawnSearchResponses ==
    {Resp("fail", <<>>), Resp("not_object", <<>>)}
    \cup {Resp("ok", l) : l \in DrawnUpstreamLists}

\* The parsed body of a model-service response, by the places a helper may
\* look for text in (<<>>: the place is absent or holds no text):
\* choices[0].message.content, choices[0].text, message.content, response
DrawnBodies ==
    [choices_message_content : {<<>>, <<" ">>, <<"c", "1">>},
     choices_text : {<<>>, <<"c", "2">>},
     message_content : {<<>>, <<"m">>},
     response : {<<>>, <<"r">>}]

\* _extract_content_from_response, which the Title Generator uses
_extract_content_from_response(data) ==
    LET txt == IF data.choices_message_content # <<>> THEN data.choices_message_content
               ELSE data.choices_text
    IN  IF txt # <<>> THEN txt
        ELSE IF data.message_content # <<>> THEN data.message_content
        ELSE IF data.response # <<>> THEN data.response
        ELSE <<>>

\* build_search_query: (data.get("message") or {}).get("content") or ""
PlannerRawContent(data) == data.message_content

\* Worker.run: (data.get("message") or {}).get("content") or ""
WorkerContent(data) == data.message_content

\* A window that has just started one worker thread
InitWorker ==
    /\ InitFirstRun
    /\ default_model_name = DEFAULT_MODEL_NAME
    /\ llm_busy = TRUE
    /\ send_enabled = FALSE
    /\ turn = [n |-> 0, chat |-> 0, text |-> <<>>, path |-> "", base |-> 0,
               ws |-> DEFAULT_WEB_SEARCH_SETTINGS, appended |-> 0]
    /\ log = <<>>
    /\ early_return = ""
    /\ quota = [turns |-> 0, events |-> 0]
    /\ \/ /\ settings = [auto_title_planner |-> TRUE,
                         web_search |-> DEFAULT_WEB_SEARCH_SETTINGS]
          /\ \E history \in DrawnHistories :
                workers \in
                    {<<NewWorker("model", "direct", history, 0, <<>>, <<>>,
                                 DEFAULT_MODEL_NAME)>>,
                     <<NewWorker("title", "direct", history, 0, <<>>, <<>>,
                                 DEFAULT_MODEL_NAME)>>}
       \/ \E ws \in DrawnWebSettings, raw_message \in DrawnRawMessages :
             /\ settings = [auto_title_planner |-> TRUE, web_search |-> ws]
             /\ workers = <<NewWorker("search", "search", <<>>, 0, <<>>,
                                      raw_message, DEFAULT_MODEL_NAME)>>

WorkerNext ==
    \/ \E i \in W : SW_run(i)
    \/ \E i \in W, r \in PlannerResponses : SW_planner_end(i, r.outcome, r.content)
    \/ \E i \in W, r \in DrawnSearchResponses : SW_search_end(i, r.outcome, r.content)
    \/ \E i \in W, text \in PageTexts : SW_fetch_end(i, text)
    \/ \E i \in W : MW_run(i)
    \/ \E i \in W, r \in ModelResponses : MW_end(i, r.outcome, r.content)
    \/ \E i \in W : TW_run(i)
    \/ \E i \in W, r \in TitleResponses : TW_end(i, r.outcome, r.content)
    \/ \E i \in W, data \in DrawnBodies :
           SW_planner_end(i, "ok", PlannerRawContent(data))
    \/ \E i \in W, data \in DrawnBodies : MW_end(i, "ok", WorkerContent(data))
    \/ \E i \in W, data \in DrawnBodies :
           TW_end(i, "ok", _extract_content_from_response(data))

WorkerSpec == InitWorker /\ [][WorkerNext]_vars

\* ========================================================================
\* Properties
\* ========================================================================
\* The history of every chat object, by object id
Histories == [c \in 1..Len(objs) |-> objs[c].history]

\* The pcs at which a worker is inside a network call
InCall == {"planner_call", "search_call", "fetch_call", "model_call", "title_call"}

Submit == \E typed \in RawInputs, search_checked \in BOOLEAN :
              on_send_clicked(typed, search_checked)

\* C1: a submit (direct or search-augmented, whatever the input text) made
\* while llm_busy is true changes no chat's history, dispatches no worker and
\* starts no turn.
C1_SubmitWhileBusyIsNoOp ==
    [][(llm_busy /\ Submit) =>
           /\ Histories' = Histories
           /\ workers' = workers
           /\ turn' = turn
           /\ log' = log
           /\ llm_busy']_vars

\* A submit was rejected while a turn was in flight with its worker alive.
C1_Witness ==
    /\ llm_busy
    /\ early_return = "busy"
    /\ workers # <<>>
    /\ turn.n >= 1

\* C2: in every reachable state at most one worker exists, hence at most one
\* is inside a network call, and whenever a worker exists llm_busy is true
\* and the Send button is disabled; a turn starts only from a state with
\* llm_busy false and no worker.
C2_State ==
    /\ Len(workers) <= 1
    /\ Cardinality({i \in W : workers[i].pc \in InCall}) <= 1
    /\ (workers # <<>> => llm_busy /\ ~send_enabled)

C2_Step ==
    (turn'.n # turn.n) => (~llm_busy /\ workers = <<>> /\ llm_busy' /\ Len(workers') = 1)

C2_AtMostOnePipeline == []C2_State /\ [][C2_Step]_vars

\* The second turn's model call is running after a chat-management event.
C2_Witness ==
    /\ turn.n = 2
    /\ quota.events = 0
    /\ \E i \in W : workers[i].kind = "model" /\ workers[i].pc = "model_call"

\* C3: under FairSpec every state with llm_busy true is followed by a state
\* with llm_busy false and the Send button enabled, whichever way the turn's
\* stages end.
C3_TurnEventuallyIdle == llm_busy ~> (~llm_busy /\ send_enabled /\ workers = <<>>)

\* A search-augmented turn whose model call failed is back at Idle.
C3_Witness ==
    /\ turn.n >= 1 /\ turn.path = "search"
    /\ ~llm_busy /\ send_enabled /\ workers = <<>>
    /\ Len(log) >= 1 /\ log[Len(log)] = "model_end"
    /\ \E c \in 1..Len(objs) :
           /\ objs[c].html # <<>>
           /\ objs[c].html[Len(objs[c].html)] = Frag("system", <<"ERROR: ", "<exception>">>)

\* The last fragment shown in chat object c is the fragment given.
LastHtml(o, c, frag) == o[c].html # <<>> /\ o[c].html[Len(o[c].html)] = frag

\* C4: when the model call of a direct turn succeeds, the chat of the turn
\* has gained exactly two entries since the submit, User(t) and an Assistant
\* message carrying the reply, and the model call's input was the history up
\* to and including User(t); for every successful response.
C4_DirectTurnAddsUserAndReply ==
    [][\A i \in W :
          (on_reply_ready(i) /\ workers[i].path = "direct") =>
              LET h == objs'[turn.chat].history IN
              /\ Len(h) = turn.base + 2
              /\ h[turn.base + 1] = Msg("user", turn.text, "")
              /\ h[turn.base + 2] = Msg("assistant", Strip(workers[i].out), "")
              /\ workers[i].messages = Normalize(SubSeq(h, 1, turn.base + 1))]_vars

\* C5: when the model call of a turn fails, the handler of the failure
\* leaves every history unchanged and ends the turn in Idle; the history the
\* model worker was given is exactly as it was at the dispatch, the User
\* message of the turn is still where the submit put it, and in the search
\* path the WebResults message (and the System message after it, if one was
\* appended) is still at the end of the history it was appended to.
C5_NoRollbackOnFailure ==
    [][\A i \in W :
          on_reply_error(i) =>
              LET w == workers[i]
                  c == IF w.ref # 0 THEN w.ref ELSE turn.chat
                  h == objs'[c].history
                  n == Len(h)
              IN  /\ Histories' = Histories
                  /\ h = w.hist
                  /\ objs'[turn.chat].history[turn.base + 1] = Msg("user", turn.text, "")
                  /\ (w.path = "search" =>
                         \/ h[n].kind = "web_results"
                         \/ h[n] = Msg("system", WebFollowup, "")
                              /\ h[n - 1].kind = "web_results")
                  /\ ~llm_busy' /\ send_enabled' /\ workers' = <<>>]_vars

\* The model call of a search-augmented turn failed after the System message
\* was appended, and the turn is over.
C5_Witness ==
    /\ turn.path = "search" /\ ~llm_busy /\ workers = <<>>
    /\ \E c \in 1..Len(objs) :
           /\ LastHtml(objs, c, Frag("system", <<"ERROR: ", "<exception>">>))
           /\ objs[c].history[Len(objs[c].history)] = Msg("system", WebFollowup, "")

\* C6: a search that returns no result makes the search worker emit its
\* error signal; the handler of that signal dispatches no worker, changes no
\* history (the User message of the turn stays), shows the error in the
\* active chat and ends the turn in Idle; no model call was made in the turn.
C6_ZeroResultsAbortTurn ==
    [][/\ \A i \in W, l \in UpstreamLists :
             (/\ SW_search_end(i, "ok", l)
              /\ ParseResults(l, <<>>, workers[i].ws.max_results) = <<>>)
             => /\ workers'[i].pc = "error"
                /\ workers'[i].out = <<"Web search returned no results.">>
       /\ \A i \in W :
             on_web_search_error(i) =>
                 /\ workers' = <<>>
                 /\ Histories' = Histories
                 /\ objs'[turn.chat].history[turn.base + 1] = Msg("user", turn.text, "")
                 /\ Len(objs'[turn.chat].history) = turn.base + 1
                 /\ current_chat # 0
                 /\ LastHtml(objs', current_chat,
                             Frag("system", <<"Web search error: ">> \o workers[i].out))
                 /\ \A k \in 1..Len(log) : log[k] \notin {"model_dispatch", "model_begin"}
                 /\ ~llm_busy' /\ send_enabled']_vars

\* A search returned no result and the turn is over, with the error shown.
C6_Witness ==
    /\ turn.path = "search" /\ ~llm_busy /\ workers = <<>>
    /\ log[Len(log)] = "search_end"
    /\ Len(objs[turn.chat].history) = turn.base + 1
    /\ \E c \in 1..Len(objs) :
           LastHtml(objs, c, Frag("system", <<"Web search error: ",
                                              "Web search returned no results.">>))

\* C7: when the model call of a search-augmented turn succeeds with a reply,
\* the chat of the turn has gained since the submit, in order, User(raw
\* input), the WebResults message, the System message if and only if
\* strict_web_only is set, and the Assistant reply; and the model call's
\* input contained the WebResults message. (Stated for the turns during which
\* the web settings were not changed, so that "is set" has one meaning.)
C7_SearchTurnHistoryShape ==
    [][\A i \in W :
          (on_reply_ready(i) /\ workers[i].path = "search"
                             /\ Strip(workers[i].out) # <<>>
                             /\ settings.web_search = turn.ws) =>
              LET h == objs'[turn.chat].history
                  b == turn.base
                  strict == turn.ws.strict_web_only
              IN  /\ Len(h) = b + (IF strict THEN 4 ELSE 3)
                  /\ h[b + 1] = Msg("user", turn.text, "")
                  /\ h[b + 2].role = "assistant" /\ h[b + 2].kind = "web_results"
                  /\ (strict => h[b + 3] = Msg("system", WebFollowup, ""))
                  /\ h[Len(h)] = Msg("assistant", Strip(workers[i].out), "")
                  /\ \E k \in 1..Len(workers[i].messages) :
                         workers[i].messages[k] =
                             [role |-> "assistant", content |-> h[b + 2].content]]_vars

\* The stage an entry of the stage log belongs to
StageNo(e) ==
    CASE e \in {"search_dispatch"} -> 0
      [] e \in {"planner_begin", "planner_end"} -> 1
      [] e \in {"search_begin", "search_end"} -> 2
      [] e \in {"fetch_begin", "fetch_end"} -> 3
      [] e \in {"assemble"} -> 4
      [] e \in {"model_dispatch", "model_begin", "model_end"} -> 5
      [] e \in {"title_dispatch", "title_begin", "title_end"} -> 6

Begins == {"planner_begin", "search_begin", "fetch_begin", "model_begin", "title_begin"}
Ends == {"planner_end", "search_end", "fetch_end", "model_end", "title_end"}

EndOf(e) ==
    CASE e = "planner_begin" -> "planner_end"
      [] e = "search_begin" -> "search_end"
      [] e = "fetch_begin" -> "fetch_end"
      [] e = "model_begin" -> "model_end"
      [] e = "title_begin" -> "title_end"

Count(lg, e) == Cardinality({k \in 1..Len(lg) : lg[k] = e})

\* C8: within a turn the stages run in the order planner, search, page
\* fetches, assembly, model call, title call: the stage log never steps back
\* to an earlier stage; no call begins while another call has not returned;
\* planner, search, model and title calls happen at most once; the search
\* worker has fetched every selected page when it delivers its result; and
\* the title call is dispatched only after the model call returned.
C8_StrictStageOrder ==
    /\ \A k \in 1..(Len(log) - 1) : StageNo(log[k]) <= StageNo(log[k + 1])
    /\ \A k \in 1..Len(log) :
          /\ (log[k] \in Begins /\ k < Len(log)) => log[k + 1] = EndOf(log[k])
          /\ log[k] \in Ends => (k > 1 /\ log[k - 1] \in Begins /\ EndOf(log[k - 1]) = log[k])
          /\ log[k] = "title_dispatch" => (k > 1 /\ log[k - 1] = "model_end")
          /\ log[k] = "model_begin" => (k > 1 /\ log[k - 1] = "model_dispatch")
          /\ log[k] = "assemble" => (k > 1 /\ log[k - 1] \in {"search_end", "fetch_end"})
    /\ \A e \in Begins \ {"fetch_begin"} : Count(log, e) <= 1
    /\ \A i \in W :
          (workers[i].kind = "search" /\ workers[i].pc = "finished") =>
              /\ Count(log, "fetch_end") =
                     Min(Len(workers[i].results), workers[i].ws.max_pages)
              /\ Count(log, "fetch_begin") = Count(log, "fetch_end")

\* A turn went through every stage, with two page fetches.
C8_Witness ==
    /\ Len(log) >= 2 /\ log[2] = "planner_begin"
    /\ Count(log, "fetch_end") = 2
    /\ log[Len(log)] = "title_end"

\* C9: what a turn uses of the web settings is what the settings held at the
\* submit: the search worker works with the settings of the submit, and the
\* handler of the search result appends the System message if and only if
\* strict_web_only was set at the submit.
C9_SettingsSnapshotPerTurn ==
    [][\A i \in W :
          /\ (workers[i].kind = "search" /\ workers[i].pc # "created")
                 => workers[i].ws = turn.ws
          /\ on_web_search_finished(i) =>
                 LET c == IF current_chat # 0 THEN current_chat ELSE turn.chat
                     h == objs'[c].history
                 IN  (h[Len(h)] = Msg("system", WebFollowup, ""))
                         <=> turn.ws.strict_web_only]_vars

\* The titles of all chat objects
Titles == [c \in 1..Len(objs) |-> objs[c].title]

TitleWorkerStarted == \E j \in 1..Len(workers') : workers'[j].kind = "title"

DefaultLooking(title) ==
    LET t == Strip(title) IN
    t = <<>> \/ (Len(t) >= 5 /\ Lower(SubSeq(t, 1, 5)) = <<"c", "h", "a", "t", " ">>)

Htmls == [c \in 1..Len(objs) |-> objs[c].html]

\* The title call of worker i has completed and this step handles its signal
TitleCompletes(i) ==
    /\ Emitted(i, "title", "finished") \/ Emitted(i, "title", "error")
    /\ workers' = RemoveAt(workers, i)

\* C11: when the title call completes, a chat's title changes only if the
\* returned title is non-empty after trimming, and then one chat's title
\* becomes that trimmed title; on an empty title or a title error every title
\* is unchanged; in all three cases the window is Idle afterwards with
\* submission enabled, and no history and no visible conversation gains an
\* entry.
C11_TitleCompletion ==
    [][\A i \in W : TitleCompletes(i) =>
          LET new_title == Strip(workers[i].out) IN
          /\ Titles' # Titles =>
                /\ Emitted(i, "title", "finished") /\ new_title # <<>>
                /\ \E c \in 1..Len(objs) : Titles' = [Titles EXCEPT ![c] = new_title]
          /\ (Emitted(i, "title", "error") \/ new_title = <<>>) => Titles' = Titles
          /\ ~llm_busy' /\ send_enabled'
          /\ Histories' = Histories /\ Htmls' = Htmls]_vars

\* A title call has completed, its title was applied and the window is Idle
C11_Witness ==
    /\ ~llm_busy /\ send_enabled /\ workers = <<>>
    /\ log # <<>> /\ log[Len(log)] = "title_end"
    /\ \E c \in 1..Len(objs) : objs[c].title = <<"T">>

InCollection(c) == \E k \in 1..Len(chats) : chats[k] = c

\* C12: the collection holds at least one chat in every state, and a step
\* that removes the only chat of the collection leaves exactly one chat, a new
\* object equal to make_new_chat("Chat 1", default model): its history is
\* exactly one System message.
C12_State == Len(chats) >= 1

C12_Step ==
    (Len(chats) = 1 /\ ~InCollection(chats[1])') =>
        /\ Len(chats') = 1
        /\ chats'[1] > Len(objs)
        /\ objs'[chats'[1]] = make_new_chat(ChatTitle(1), default_model_name)
        /\ objs'[chats'[1]].history = <<Msg("system", SystemPrompt, "")>>

C12_CollectionNeverEmpty == []C12_State /\ [][C12_Step]_vars

\* The only chat of the first run was deleted and replaced
C12_Witness ==
    /\ chats = <<2>> /\ Len(objs) = 2
    /\ objs[1].html # <<>> /\ objs[1].html[1] = FirstRunHtml[1]
    /\ objs[2] = make_new_chat(ChatTitle(1), default_model_name)

\* C13: a step that deletes the chat at a valid index i from a collection of
\* more than one chat removes exactly that chat, keeps the order of the
\* others and makes min(i, len-1), len taken after the removal, the active
\* index; a delete with an index outside [0, len-1] changes nothing.
C13_ActiveIndexAfterDelete ==
    [][/\ (Len(chats) > 1 /\ Len(chats') < Len(chats)) =>
             \E i \in 0..(Len(chats) - 1) :
                 /\ chats' = RemoveAt(chats, i + 1)
                 /\ current_chat_index' = Min(i, Len(chats') - 1)
       /\ \A row \in {-1, Len(chats)} : _delete_chat_at(row) => UNCHANGED vars]_vars

\* C14: in every state 0 <= current_chat_index < len(chats), so that exactly
\* one chat is active.
C14_ActiveIndexInRange ==
    0 <= current_chat_index /\ current_chat_index < Len(chats)

\* C15: in every state every chat of the collection has a non-empty history
\* whose first entry has role system, and no step changes or removes the first
\* history entry of any chat object.
C15_State ==
    \A k \in 1..Len(chats) :
        /\ objs[chats[k]].history # <<>>
        /\ objs[chats[k]].history[1].role = "system"

C15_Step ==
    \A c \in 1..Len(objs) :
        /\ objs'[c].history # <<>>
        /\ objs'[c].history[1] = objs[c].history[1]

C15_FirstEntryIsSystem == []C15_State /\ [][C15_Step]_vars

\* A chat went through a turn and a title change and still begins with its
\* system message
C15_Witness ==
    \E k \in 1..Len(chats) :
        /\ Len(objs[chats[k]].history) >= 3
        /\ objs[chats[k]].title = <<"T">>
        /\ objs[chats[k]].history[1] = Msg("system", SystemPrompt, "")

\* The stripped lines of a text
StrippedLines(content) ==
    LET ls == SplitLines(content) IN [k \in 1..Len(ls) |-> Strip(ls[k])]

\* Lines i and j of `lines` form a valid pair: a Result line with a title,
\* followed later by a URL line with a URL, with no Result line and no URL
\* line between them (each title and each URL belongs to one pair at most)
ValidPair(lines, i, j) ==
    /\ i < j
    /\ IsResultLine(lines[i]) /\ AfterColon(lines[i]) # <<>>
    /\ IsUrlLine(lines[j]) /\ Strip(Tail(lines[j])) # <<>>
    /\ \A m \in (i + 1)..(j - 1) : ~IsResultLine(lines[m]) /\ ~IsUrlLine(lines[m])

\* The URL lines of the valid pairs
PairedUrls(lines) ==
    {j \in 1..Len(lines) : \E i \in 1..Len(lines) : ValidPair(lines, i, j)}

\* One markdown link per valid pair, in the order of the pairs
ExpectedLinks(content) ==
    LET lines == StrippedLines(content)
        S == PairedUrls(lines)
    IN  [n \in 1..Cardinality(S) |->
            LET j == CHOOSE x \in S : Cardinality({y \in S : y < x}) = n - 1
                i == CHOOSE x \in 1..Len(lines) : ValidPair(lines, x, j)
            IN  Link(AfterColon(lines[i]), Strip(Tail(lines[j])))]

\* The web_results messages of the running session, as (chat, position)
WebResultsAt ==
    {p \in (1..Len(chats)) \X (1..4) :
        /\ p[2] <= Len(objs[chats[p[1]]].history)
        /\ objs[chats[p[1]]].history[p[2]].kind = "web_results"}

\* C16: when a save succeeds, every in-memory web_results message whose
\* content has N valid pairs is written with, as content, the header followed
\* by exactly N markdown links [title](url), one per pair in the order of the
\* pairs, and with the placeholder "Web search sources: (none)" if N = 0.
C16_CompactionOutput ==
    [][closeEvent("ok") =>
          \A p \in WebResultsAt :
              LET links == ExpectedLinks(objs[chats[p[1]]].history[p[2]].content)
                  written == disk'[1].chats[p[1]].history[p[2]].content
              IN  /\ Len(links) = Cardinality(PairedUrls(StrippedLines(
                                      objs[chats[p[1]]].history[p[2]].content)))
                  /\ written = IF links = <<>> THEN NoSources
                               ELSE SourcesHeader \o Join(links, <<"\n">>)]_vars

\* A text with two valid pairs was saved as two links, in the order of the pairs
C16_Witness ==
    /\ WebResultsAt # {}
    /\ disk # NoFile /\ "chats" \in DOMAIN disk[1] /\ disk[1].chats # <<>>
    /\ Len(disk[1].chats[1].history) >= 3
    /\ disk[1].chats[1].history[3].content =
           SourcesHeader \o Link(<<"t", "1">>, <<"u", "1">>) \o <<"\n">>
           \o Link(<<"t", "2">>, <<"u", "2">>)

\* A chat dict without its html key: what save and load deal with
Stored(chat) == [title |-> chat.title, model |-> chat.model, history |-> chat.history]

WebLinksAt ==
    {p \in (1..Len(chats)) \X (1..4) :
        /\ p[2] <= Len(objs[chats[p[1]]].history)
        /\ objs[chats[p[1]]].history[p[2]].kind = "web_links"}

\* C17: when a save succeeds, every in-memory message of kind web_links is
\* written with its kind and content unchanged, and saving what load returns
\* from the written document writes the same chats again (and the same
\* document, when the stored active index is within the collection).
C17_CompactionIdempotent ==
    [][closeEvent("ok") =>
          /\ \A p \in WebLinksAt :
                 disk'[1].chats[p[1]].history[p[2]] = objs[chats[p[1]]].history[p[2]]
          /\ LET loaded == load_chats(disk')[1]
                 again == save_chats(loaded.chats, loaded.current_index)
             IN  /\ again.chats = disk'[1].chats
                 /\ current_chat_index < Len(chats) => again = disk'[1]]_vars

\* A session loaded from a save that had compacted a search turn holds the
\* links, and saving it again would write the document that is on disk
C17_Witness ==
    /\ WebLinksAt # {} /\ WebResultsAt = {}
    /\ disk = <<save_chats(Collection, current_chat_index)>>
    /\ objs[chats[1]].history[3].content =
           SourcesHeader \o Link(<<"t", "2">>, <<"u", "2">>)

\* C18: when a save succeeds, loading the written document returns as many
\* chats in the same order with the same titles and models, and for each
\* chat a history equal entry by entry to the in-memory history with every
\* web_results message replaced by its compacted web_links form (so every
\* web_links message as it was); and after any launch no message of kind
\* web_results is in the collection.
C18_SaveLoadRoundTrip ==
    [][/\ closeEvent("ok") =>
             LET loaded == load_chats(disk') IN
             /\ loaded # <<>>
             /\ Len(loaded[1].chats) = Len(chats)
             /\ \A k \in 1..Len(chats) :
                    LET mine == objs[chats[k]]
                        theirs == loaded[1].chats[k]
                    IN  /\ theirs.title = mine.title
                        /\ theirs.model = mine.model
                        /\ Len(theirs.history) = Len(mine.history)
                        /\ \A m \in 1..Len(mine.history) :
                               theirs.history[m] =
                                   IF mine.history[m].kind = "web_results"
                                   THEN Msg(mine.history[m].role,
                                            _shrink_web_results(mine.history[m].content),
                                            "web_links")
                                   ELSE mine.history[m]
       /\ _load_or_create_chats =>
             /\ WebResultsAt' = {}
             /\ disk = <<save_chats(Collection, current_chat_index)>> =>
                    /\ Len(chats') = Len(chats)
                    /\ \A k \in 1..Len(chats) :
                           Stored(objs'[chats'[k]]) =
                               [Stored(objs[chats[k]]) EXCEPT
                                   !.history = SaveHistory(@)]]_vars

\* A session was saved and the next launch loaded it: the search turn of the
\* first chat is now its compacted form, between the same other messages
C18_Witness ==
    /\ disk # NoFile /\ "chats" \in DOMAIN disk[1] /\ Len(chats) = 2
    /\ WebResultsAt = {}
    /\ objs[chats[1]].history =
           <<Msg("system", SystemPrompt, ""), Msg("user", <<"a">>, ""),
             Msg("assistant", SourcesHeader \o Link(<<"t", "1">>, <<"u", "1">>)
                              \o <<"\n">> \o Link(<<"u", "2">>, <<"u", "2">>),
                 "web_links"),
             Msg("assistant", <<"r">>, "")>>
    /\ Stored(objs[chats[2]]) = Stored(ReloadedChat)

\* C19: a save, successful or failed, changes nothing of the running session:
\* every chat keeps its title, model and history, every web_results message
\* keeps its kind and its content, and only the written document holds the
\* compacted form.
C19_SaveLeavesMemoryUnchanged ==
    [][\A outcome \in {"ok", "fail_before", "fail_during"} :
          closeEvent(outcome) =>
              /\ objs' = objs /\ chats' = chats
              /\ WebResultsAt' = WebResultsAt
              /\ outcome = "ok" =>
                    \A p \in WebResultsAt :
                        /\ disk'[1].chats[p[1]].history[p[2]].kind = "web_links"
                        /\ objs'[chats'[p[1]]].history[p[2]] =
                               objs[chats[p[1]]].history[p[2]]]_vars

\* After a save the session still holds the verbose text of a search turn
\* while the document holds its links
C19_Witness ==
    /\ disk # NoFile /\ "chats" \in DOMAIN disk[1]
    /\ <<1, 3>> \in WebResultsAt
    /\ Len(objs[chats[1]].history[3].content) > 20
    /\ disk[1].chats[1].history[3] =
           Msg("assistant", SourcesHeader \o Link(<<"t", "1">>, <<"u", "1">>)
                            \o <<"\n">> \o Link(<<"u", "2">>, <<"u", "2">>),
               "web_links")

\* The current_index a document stores, 0 if it stores none
StoredIndex(data) == IF "current_index" \in DOMAIN data THEN data.current_index ELSE 0

\* C20: for every document with at least one chat, whatever current_index it
\* stores, load returns the chats with an active index within
\* [0, len(chats)-1]: the stored one if it lies there, 0 if it is negative,
\* len(chats)-1 if it is larger; and the launch makes it the active index.
C20_LoadClampsIndex ==
    [][(/\ _load_or_create_chats
        /\ disk # NoFile /\ "chats" \in DOMAIN disk[1] /\ disk[1].chats # <<>>) =>
          LET n == Len(disk[1].chats)
              stored == StoredIndex(disk[1])
              loaded == load_chats(disk)
          IN  /\ loaded # <<>>
              /\ loaded[1].current_index \in 0..(n - 1)
              /\ loaded[1].current_index =
                     IF stored < 0 THEN 0 ELSE IF stored > n - 1 THEN n - 1 ELSE stored
              /\ current_chat_index' = loaded[1].current_index]_vars

\* A document of two chats storing current_index 5 was loaded: chat 2 is active
C20_Witness ==
    /\ disk # NoFile /\ "chats" \in DOMAIN disk[1] /\ Len(disk[1].chats) = 2
    /\ StoredIndex(disk[1]) = 5
    /\ Len(chats) = 2 /\ current_chat_index = 1

\* chats.json is missing, cannot be read or parsed, or holds no chat
NoSavedState(file) ==
    \/ file = NoFile
    \/ file # NoFile /\ "chats" \notin DOMAIN file[1]
    \/ file # NoFile /\ "chats" \in DOMAIN file[1] /\ file[1].chats = <<>>

\* C21: when chats.json is missing, unreadable, not parseable or holds zero
\* chats, load_chats returns None and the launch performs the first-run
\* bootstrap: the collection then holds exactly one chat, titled "Chat 1",
\* with active index 0; and a save that fails leaves the collection, every
\* chat and the active index as they were.
C21_LoadNeverFails ==
    [][/\ (_load_or_create_chats /\ NoSavedState(disk)) =>
             /\ load_chats(disk) = <<>>
             /\ Len(chats') = 1
             /\ objs'[chats'[1]].title = ChatTitle(1)
             /\ objs'[chats'[1]].history = <<Msg("system", SystemPrompt, "")>>
             /\ current_chat_index' = 0
       /\ \A outcome \in {"fail_before", "fail_during"} :
             closeEvent(outcome) =>
                 /\ objs' = objs /\ chats' = chats
                 /\ current_chat_index' = current_chat_index]_vars

\* The program was launched on a chats.json it could not parse and shows the
\* first-run chat
C21_Witness ==
    /\ disk = <<Corrupt>>
    /\ chats = <<1>> /\ current_chat_index = 0
    /\ objs[1] = [make_new_chat(ChatTitle(1), DEFAULT_MODEL_NAME)
                     EXCEPT !.html = FirstRunHtml]


\* C22: role normalisation.  For every history, the messages Worker.run sends
\* to the model service are as many as the history's entries and in their
\* order; each has the content of its entry; a role system, user or assistant
\* is kept and any other or missing role is sent as user; a sent message has
\* the fields role and content only, so kind never leaves the program.
C22_RoleNormalization ==
    [][\A i \in W :
          MW_run(i) =>
              LET history == WorkerHistory(workers[i])
                  messages == workers'[i].messages
              IN  /\ Len(messages) = Len(history)
                  /\ \A k \in 1..Len(history) :
                        /\ DOMAIN messages[k] = {"role", "content"}
                        /\ messages[k].content = history[k].content
                        /\ history[k].role \in {"system", "user", "assistant"}
                              => messages[k].role = history[k].role
                        /\ history[k].role \notin {"system", "user", "assistant"}
                              => messages[k].role = "user"]_vars

\* A model call whose history held a web_results entry with a role the
\* service does not know, after an assistant entry: sent as user, in place
C22_Witness ==
    \E i \in W :
        /\ workers[i].kind = "model" /\ workers[i].pc = "model_call"
        /\ Len(workers[i].hist) = 2
        /\ workers[i].hist[1].role = "assistant"
        /\ workers[i].hist[2].role = "tool" /\ workers[i].hist[2].kind = "web_results"
        /\ workers[i].messages[1].role = "assistant"
        /\ workers[i].messages[2] = [role |-> "user", content |-> <<"w">>]

\* An entry the planner may see: a user entry, or an assistant entry that is
\* not the context of a web search
PlannerVisible(msg) ==
    /\ msg.role \in {"user", "assistant"}
    /\ ~(msg.role = "assistant" /\ msg.kind = "web_results")

\* The step that starts a search worker
SearchDispatched ==
    /\ Len(workers') = Len(workers) + 1
    /\ workers'[Len(workers')].kind = "search"

\* C23: planner-visible sub-history.  The sub-history handed to the query
\* planner is the subsequence, in order, of the chat's history with the User
\* message just appended, made of the user and assistant entries without the
\* assistant entries of kind web_results; it holds no System message and no
\* web_results entry, and it ends with the message just appended.
C23_PlannerSubHistory ==
    [][SearchDispatched =>
          LET history == objs'[turn'.chat].history
              planner_history == workers'[Len(workers')].planner_history
          IN  /\ history = Append(objs[turn'.chat].history,
                                  Msg("user", turn'.text, ""))
              /\ planner_history = SelectSeq(history, PlannerVisible)
              /\ \A k \in 1..Len(planner_history) :
                    /\ planner_history[k].role # "system"
                    /\ planner_history[k].kind # "web_results"
              /\ planner_history[Len(planner_history)] = Msg("user", turn'.text, "")]_vars

\* A second search turn in a chat whose history holds the web_results entry
\* and the reply of an earlier one: the planner sees both user messages and
\* the reply
C23_Witness ==
    \E i \in W :
        /\ workers[i].kind = "search" /\ workers[i].pc = "created"
        /\ turn.chat # 0
        /\ \E k \in 1..Len(objs[turn.chat].history) :
              /\ objs[turn.chat].history[k].kind = "web_results"
              /\ objs[turn.chat].history[k].role = "assistant"
        /\ Len(workers[i].planner_history) = 3
        /\ workers[i].planner_history[2].role = "assistant"
        /\ \A k \in 1..3 : workers[i].planner_history[k].kind # "web_results"

\* C24: a planner failure never aborts the turn.  With use_planner set, when
\* the planner call fails, raises or returns empty text, the worker goes on to
\* the search request with the raw input text (the text of the turn's User
\* message) as query; with use_planner not set the worker goes to the search
\* request at once, with the raw input as query and without a planner call.
C24_PlannerFallback ==
    [][\A i \in W :
          /\ \A r \in PlannerResponses :
                (/\ SW_planner_end(i, r.outcome, r.content)
                 /\ (r.outcome \in {"fail", "raise"} \/ Strip(r.content) = <<>>))
                => /\ workers'[i].pc = "search_call"
                   /\ workers'[i].search_query = workers[i].raw_message
                   /\ workers'[i].search_query = turn.text
                   /\ log' = log \o <<"planner_end", "search_begin">>
          /\ (SW_run(i) /\ ~load_web_settings.use_planner)
                => /\ workers'[i].pc = "search_call"
                   /\ workers'[i].search_query = workers[i].raw_message
                   /\ workers'[i].search_query = turn.text
                   /\ log' = Append(log, "search_begin")
          /\ (SW_run(i) /\ load_web_settings.use_planner)
                => /\ workers'[i].pc = "planner_call"
                   /\ log' = Append(log, "planner_begin")]_vars

\* The search request is under way with the raw input as query, after a
\* planner call that gave no query
C24_Witness ==
    \E i \in W :
        /\ workers[i].kind = "search" /\ workers[i].pc = "search_call"
        /\ log = <<"search_dispatch", "planner_begin", "planner_end", "search_begin">>
        /\ workers[i].search_query = turn.text

\* The search worker's call of search_web has ended by an exception
SearchRaised(w) == w.kind = "search" /\ w.pc = "error" /\ w.raised # ""

C25_State ==
    \A i \in W :
        workers[i].kind = "search" =>
            /\ workers[i].raised \in {"", "SearchError"}
            /\ (workers[i].pc \in {"search_call", "fetch_call", "finished"}
                   => workers[i].search_query # <<>>)

C25_Step ==
    \A i \in W :
        /\ ((SW_run(i) \/ \E r \in PlannerResponses :
                              SW_planner_end(i, r.outcome, r.content))
            /\ workers'[i].search_query = <<>> /\ workers'[i].pc # "planner_call")
              => workers'[i].pc = "error" /\ workers'[i].raised = "SearchError"
        /\ \A r \in DrawnSearchResponses :
              SW_search_end(i, r.outcome, r.content) =>
                  IF r.outcome = "ok"
                  THEN /\ workers'[i].raised = ""
                       /\ \/ workers'[i].results # <<>>
                          \/ workers'[i].out = <<"Web search returned no results.">>
                  ELSE /\ workers'[i].pc = "error"
                       /\ workers'[i].raised = "SearchError"
                       /\ workers'[i].results = <<>>

\* C25: Search Gateway error contract.  A search with an empty query and a
\* search whose upstream call fails (network error, non-success status,
\* malformed body) end with a SearchError; every call ends with a parsed
\* result list or with a SearchError, never with an error of another kind
\* and never with a partial list.
C25_SearchErrorContract == []C25_State /\ [][C25_Step]_vars

\* What holds instead: an empty query ends with a ValueError, a JSON body
\* that is not an object with an AttributeError, every other failure with a
\* SearchError, and a failed call leaves no result behind.
C25_ErrorKinds ==
    \A i \in W :
        /\ SearchRaised(workers[i]) =>
              /\ workers[i].results = <<>>
              /\ workers[i].raised = "ValueError" <=> workers[i].search_query = <<>>
              /\ workers[i].raised \in {"ValueError", "SearchError", "AttributeError"}
        /\ (workers[i].kind = "search"
            /\ workers[i].pc \in {"search_call", "fetch_call", "finished"})
              => workers[i].search_query # <<>>

\* An upstream record that carries a url
HasUrl(item) == Strip(item.url) # <<>>

\* The results of a search are the first n upstream records with a url
FirstWithUrl(results, raw_results, n) ==
    LET valid == SelectSeq(raw_results, HasUrl) IN
    /\ Len(results) = n
    /\ \A j \in 1..n :
          /\ results[j].url = Strip(valid[j].url)
          /\ results[j].snippet = Strip(valid[j].snippet)
          /\ results[j].title = IF Strip(valid[j].title) = <<>> THEN Strip(valid[j].url)
                                ELSE Strip(valid[j].title)

\* C26: search result truncation.  For every upstream list and every
\* max_results >= 0 the search returns the first min(max_results, k) of the k
\* upstream records that carry a url, in upstream order; it never returns a
\* record without url nor more than max_results records.
C26_SearchTruncation ==
    [][\A i \in W, r \in DrawnSearchResponses :
          (SW_search_end(i, r.outcome, r.content) /\ r.outcome = "ok") =>
              LET k == Len(SelectSeq(r.content, HasUrl)) IN
              /\ FirstWithUrl(workers'[i].results, r.content,
                              Min(workers[i].ws.max_results, k))
              /\ Len(workers'[i].results) <= workers[i].ws.max_results
              /\ \A j \in 1..Len(workers'[i].results) :
                    workers'[i].results[j].url # <<>>]_vars

\* What holds instead: the cut is made after a record was taken, so that a
\* max_results of 0 returns one record like a max_results of 1
C26_TruncationFromOne ==
    [][\A i \in W, r \in DrawnSearchResponses :
          (SW_search_end(i, r.outcome, r.content) /\ r.outcome = "ok") =>
              LET k == Len(SelectSeq(r.content, HasUrl)) IN
              /\ FirstWithUrl(workers'[i].results, r.content,
                              Min(Max(1, workers[i].ws.max_results), k))
              /\ \A j \in 1..Len(workers'[i].results) :
                    workers'[i].results[j].url # <<>>]_vars

\* min(p, r) of a search worker: the page budget and the results it holds
Budget(w) == Min(w.ws.max_pages, Len(w.results))

\* The `Result N: ...` lines of a WebResults text
ResultLines(content) == SelectSeq(SplitLines(content), IsResultLine)

\* The page fetches of a search worker: the k-th fetch is for result k and
\* lies within the budget; the fetch's outcome decides only whether block k
\* has a Content part, and the worker goes on to the next fetch or finishes
FetchSteps(i) ==
    /\ (/\ i <= Len(workers') /\ workers'[i].kind = "search"
        /\ workers'[i].pc = "fetch_call" /\ workers'[i] # workers[i])
          => /\ workers'[i].i = Count(log', "fetch_begin")
             /\ workers'[i].i <= Budget(workers'[i])
             /\ Len(workers'[i].context_blocks) = workers'[i].i - 1
    /\ \A text \in PageTexts :
          SW_fetch_end(i, text) =>
              LET k == workers[i].i
                  blocks == workers'[i].context_blocks
              IN  /\ workers'[i].pc \in {"fetch_call", "finished"}
                  /\ Len(blocks) = k
                  /\ SubSeq(blocks[k], 1, 3) = <<"Result ", Digit(k), ": ">>
                  /\ (\E j \in 1..Len(blocks[k]) : blocks[k][j] = "Content:")
                         <=> text # <<>>

\* The end of the search stage: min(p, r) fetches were made, and the
\* WebResults message appended to the active chat holds the blocks
\* Result 1 .. Result min(p, r); the model worker is started
AssembleStep(i, always) ==
    on_web_search_finished(i) =>
        LET w == workers[i]
            n == Budget(w)
            chat == current_chat
        IN  /\ Len(w.results) >= 1
            /\ Count(log, "fetch_begin") = n
            /\ Count(log, "fetch_end") = n
            /\ (always \/ chat # 0) =>
                  /\ chat # 0
                  /\ LET message == objs'[chat].history[Len(objs[chat].history) + 1]
                         lines == ResultLines(message.content)
                     IN  /\ message.kind = "web_results"
                         /\ Len(lines) = n
                         /\ \A k \in 1..n :
                               SubSeq(lines[k], 1, 3) = <<"Result ", Digit(k), ": ">>
                  /\ Len(workers') = Len(workers)
                  /\ workers'[Len(workers')].kind = "model"
                  /\ workers'[Len(workers')].pc = "created"
                  /\ llm_busy'

\* C27: page-fetch budget.  In a search turn with r >= 1 results and
\* max_pages = p >= 0, min(p, r) page fetches are attempted, one for each of
\* the first min(p, r) results in order, and the WebResults message holds the
\* blocks Result 1 .. Result min(p, r); a failed or empty fetch only leaves
\* out the block's Content and never ends the turn: the model call is
\* dispatched.
C27_PageFetchBudget ==
    [][\A i \in W : FetchSteps(i) /\ AssembleStep(i, TRUE)]_vars

\* The same, with the message and the model call required when the window
\* has an active chat at the end of the search
C27_BudgetWithActiveChat ==
    [][\A i \in W : FetchSteps(i) /\ AssembleStep(i, FALSE)]_vars

\* A User message with text
IsNonEmptyUser(msg) == msg.role = "user" /\ Strip(msg.content) # <<>>

\* The fallback title of a history with such a message: the first line of
\* the first one, cut at TitleLimit characters (blanks at the cut removed)
FallbackOf(history) ==
    LET line == FirstLine(Strip(SelectSeq(history, IsNonEmptyUser)[1].content)) IN
    IF Len(line) <= TitleLimit THEN line ELSE RStrip(SubSeq(line, 1, TitleLimit))

\* The title call gave nothing: the request failed or the text is empty
NoTitleFrom(r) == r.outcome = "fail" \/ (r.outcome = "ok" /\ Strip(r.content) = <<>>)

TitleFallbackStep(i, title_without_user) ==
    /\ \A r \in TitleResponses :
          (TW_end(i, r.outcome, r.content) /\ NoTitleFrom(r)) =>
              /\ workers'[i].pc = "finished"
              /\ workers'[i].out = FallbackOf(workers[i].hist)
              /\ Len(workers'[i].out) \in 1..TitleLimit
    /\ (TW_run(i) /\ SelectSeq(workers[i].hist, IsNonEmptyUser) = <<>>) =>
              /\ workers'[i].pc = "finished"
              /\ workers'[i].out = title_without_user
    /\ (TW_run(i) /\ SelectSeq(workers[i].hist, IsNonEmptyUser) # <<>>) =>
              workers'[i].pc = "title_call"

\* C28: Title Generator fallback.  When the title call fails or its response
\* is empty, the generator returns the first line of the first non-empty
\* User message, truncated to 80 characters; for a history without a User
\* message it returns "New chat"; a failed call never raises to the caller.
C28_TitleFallback ==
    [][\A i \in W : TitleFallbackStep(i, <<"New chat">>)]_vars

\* What holds instead: for a history without a User message that has text
\* the generator returns the empty string, without a call
C28_EmptyWithoutUser ==
    [][\A i \in W : TitleFallbackStep(i, <<>>)]_vars

\* The handler of a worker's error signal runs for worker i
ErrorHandled(i) == on_web_search_error(i) \/ on_reply_error(i)

\* The entry such a handler shows: the search stage is named, the model
\* stage has the general prefix
ErrorEntry(w) ==
    Frag("system", (IF w.kind = "search" THEN <<"Web search error: ">> ELSE <<"ERROR: ">>)
                   \o w.out)

SurfacedStep(i, always) ==
    ErrorHandled(i) =>
        /\ Histories' = Histories
        /\ workers' = <<>>
        /\ ~llm_busy' /\ send_enabled'
        /\ (always \/ current_chat # 0) =>
              /\ current_chat # 0
              /\ objs'[current_chat].html =
                     Append(objs[current_chat].html, ErrorEntry(workers[i]))
              /\ \A c \in 1..Len(objs) :
                    c # current_chat => objs'[c].html = objs[c].html
        /\ current_chat = 0 => objs' = objs

\* No worker is started from a state without workers except by a submit
NoRedispatch == (workers = <<>> /\ workers' # <<>>) => turn'.n = turn.n + 1

\* C29: surfaced errors.  Each search failure (zero results included) and
\* each model-call failure adds exactly one system-style entry that names the
\* failed stage to the visible conversation of the active chat, adds nothing
\* to any history, and no worker is dispatched again for the turn.
C29_SurfacedErrors ==
    [][NoRedispatch /\ \A i \in W : SurfacedStep(i, TRUE)]_vars

\* The same, with the entry required when the window has an active chat
C29_SurfacedWithActiveChat ==
    [][NoRedispatch /\ \A i \in W : SurfacedStep(i, FALSE)]_vars

\* A submit, by Send or by the search path, of a text that is empty when
\* trimmed
BlankSubmit ==
    \E typed \in RawInputs :
        /\ Strip(typed) = <<>>
        /\ \/ \E search_checked \in BOOLEAN : on_send_clicked(typed, search_checked)
           \/ on_search_web_clicked(typed)

\* C30: a blank submission is a silent no-op.  Submitting, in Idle and with
\* or without web search, a text that is empty after trimming leaves every
\* history, every visible conversation, the busy flag and the Send control
\* unchanged, starts no worker and no turn, and shows no error.
C30_BlankSubmitIsNoOp ==
    [][(~llm_busy /\ BlankSubmit) =>
           /\ Histories' = Histories
           /\ Htmls' = Htmls
           /\ objs' = objs
           /\ llm_busy' = llm_busy /\ send_enabled' = send_enabled
           /\ workers' = workers
           /\ turn' = turn /\ log' = log
           /\ chats' = chats /\ current_chat_index' = current_chat_index]_vars

\* A blank text was submitted in Idle, in a chat that has had a turn
C30_Witness ==
    /\ early_return = "blank"
    /\ ~llm_busy /\ send_enabled /\ workers = <<>>
    /\ current_chat # 0
    /\ turn.n >= 1 /\ turn.chat = current_chat

\* A step of a worker thread
WorkerAct ==
    \/ \E i \in W : SW_run(i) \/ MW_run(i) \/ TW_run(i)
    \/ \E i \in W, r \in PlannerResponses : SW_planner_end(i, r.outcome, r.content)
    \/ \E i \in W, r \in SearchResponses : SW_search_end(i, r.outcome, r.content)
    \/ \E i \in W, text \in PageTexts : SW_fetch_end(i, text)
    \/ \E i \in W, r \in ModelResponses : MW_end(i, r.outcome, r.content)
    \/ \E i \in W, r \in TitleResponses : TW_end(i, r.outcome, r.content)

\* A step of the UI thread: an event handler or a completion handler
CoordinatorAct ==
    \/ Submit
    \/ \E row \in 0..(Len(chats) - 1) : currentRowChanged(row)
    \/ on_new_chat_clicked
    \/ \E row \in -1..Len(chats) : _delete_chat_at(row)
    \/ \E row \in 0..(Len(chats) - 1), typed \in RenameInputs, ok \in BOOLEAN :
           _rename_chat_at(row, typed, ok)
    \/ \E text \in AVAILABLE_MODELS : on_model_changed(text)
    \/ \E choice \in SettingsChoices : on_save_clicked(choice)
    \/ \E i \in W : \/ on_web_search_finished(i) \/ on_web_search_error(i)
                     \/ on_reply_ready(i) \/ on_reply_error(i)
                     \/ on_title_ready(i) \/ on_title_error(i)

\* The store: the chat list, each chat's title, model and history, and the
\* active index
Store ==
    [chats |-> chats, current_chat_index |-> current_chat_index,
     data |-> [c \in 1..Len(objs) |-> Stored(objs[c])]]

\* C31: only the coordinator mutates the store.  No step of a search, model
\* or title worker changes the chat list, a chat's history, title or model,
\* or the active index (nor a visible conversation); every change of the
\* store is made by a step of the UI thread.
C31_OnlyCoordinatorMutates ==
    [][/\ WorkerAct => (Store' = Store /\ objs' = objs)
       /\ Store' # Store => CoordinatorAct]_vars

\* The model worker of a search turn, which holds the chat's own history
\* list, has emitted finished, and the list is as it was given to it
C31_Witness ==
    \E i \in W :
        /\ workers[i].kind = "model" /\ workers[i].pc = "finished"
        /\ workers[i].ref # 0 /\ workers[i].out # <<>>
        /\ objs[workers[i].ref].history = workers[i].hist

\* What a model worker sends is the history as it was when it was dispatched
SentAsDispatched ==
    \A i \in W :
        MW_run(i) => workers'[i].messages = Normalize(workers[i].hist)

\* Every worker holds a list of its own
OwnCopies == \A i \in W : workers[i].ref = 0

\* C32: workers run on a snapshot.  The history a worker sends to the model
\* service is a copy taken at its dispatch, in the direct path and in the
\* search path alike: worker and coordinator share no history list, and no
\* append made after the dispatch changes what the worker sends.
C32_WorkersRunOnSnapshot == []OwnCopies /\ [][SentAsDispatched]_vars

\* What holds instead: the model worker of a search turn holds the chat's own
\* list, the other workers hold copies; the list is not appended to before
\* the worker has read it, so that what is sent is the history of the dispatch
C32_SharedInSearchPath ==
    /\ [](\A i \in W : workers[i].ref # 0 <=>
                          (workers[i].kind = "model" /\ workers[i].path = "search"))
    /\ [][SentAsDispatched]_vars

Terminal == {"finished", "error"}

\* The completion handler of worker i runs on its terminal signal
Handled(i) ==
    \/ on_web_search_finished(i) \/ on_web_search_error(i)
    \/ on_reply_ready(i) \/ on_reply_error(i)
    \/ on_title_ready(i) \/ on_title_error(i)

\* A worker that has emitted its terminal signal emits nothing more: it is
\* as it is until its handler has run, which then takes it away
OneTerminalSignal ==
    \A i \in W :
        workers[i].pc \in Terminal =>
            \/ Handled(i)
            \/ i <= Len(workers') /\ workers'[i] = workers[i]

\* C33: one terminal message, then exit.  Every dispatched worker (search,
\* model of the direct path, model of the search path, title) emits exactly
\* one terminal signal, finished or error, and on either signal its thread is
\* told to quit, so that no thread of a finished turn is running when the
\* next turn starts its worker.
C33_OneSignalThenExit ==
    [][/\ OneTerminalSignal
       /\ \A i \in W : Handled(i) => /\ workers[i].pc \in Terminal
                                     /\ workers[i].pc \in workers[i].quit_on]_vars

\* What holds instead: every terminal signal tells the thread to quit except
\* the error signal of the model worker of a search turn
C33_QuitExceptSearchModelError ==
    [][/\ OneTerminalSignal
       /\ \A i \in W : Handled(i) =>
             /\ workers[i].pc \in Terminal
             /\ workers[i].pc \notin workers[i].quit_on
                   <=> (/\ workers[i].kind = "model" /\ workers[i].path = "search"
                        /\ workers[i].pc = "error")]_vars

HasText(text) == text # <<>>

\* The first non-empty text of a response in the order chat-style choice,
\* completion-style choice, message, top-level response
FirstNonEmpty(data) ==
    LET found == SelectSeq(<<data.choices_message_content, data.choices_text,
                             data.message_content, data.response>>, HasText)
    IN  IF found = <<>> THEN <<>> ELSE found[1]

\* The three helpers complete their call on the response data, each having
\* extracted the text chosen by `choose`
ExtractionStep(i, data, chooseTitle(_), choosePlanner(_), chooseWorker(_)) ==
    /\ TW_end(i, "ok", _extract_content_from_response(data)) =>
          workers'[i].out = TitleFromContent(chooseTitle(data), workers[i].first_msg)
    /\ SW_planner_end(i, "ok", PlannerRawContent(data)) =>
          workers'[i].search_query =
              IF Strip(choosePlanner(data)) = <<>> THEN Strip(workers[i].raw_message)
              ELSE Strip(choosePlanner(data))
    /\ MW_end(i, "ok", WorkerContent(data)) =>
          workers'[i].out = Strip(chooseWorker(data))

MessageContent(data) == data.message_content

\* C34: response-shape extraction is the same for every model helper.  For
\* every response the text is looked for in the order choices[0].message.content,
\* choices[0].text, message.content, response, and the first non-empty one is
\* used; the Query Planner (and the model worker) extract the same text from
\* a response as the Title Generator.
C34_SameExtraction ==
    [][\A i \in W, data \in DrawnBodies :
          ExtractionStep(i, data, FirstNonEmpty, FirstNonEmpty, FirstNonEmpty)]_vars

\* What holds instead: the Title Generator follows the order; the Query
\* Planner and the model worker read message.content only
C34_TitleOnly ==
    [][\A i \in W, data \in DrawnBodies :
          ExtractionStep(i, data, FirstNonEmpty, MessageContent, MessageContent)]_vars

\* The chats whose history a step changes
Appended == {c \in 1..Len(objs) : c <= Len(objs') /\ objs'[c].history # objs[c].history}

\* C35: a turn stays in its chat.  Every message a turn appends (the User
\* message, the WebResults message, the System message after it and the
\* Assistant reply) is appended to the history of the chat that was active
\* when the turn was submitted, whatever the user selects, creates or deletes
\* while the turn is in flight.
C35_TurnStaysInItsChat ==
    [][\A c \in Appended :
          /\ c = turn'.chat
          /\ Len(objs'[c].history) > Len(objs[c].history)
          /\ SubSeq(objs'[c].history, 1, Len(objs[c].history)) = objs[c].history]_vars

\* What holds instead: the messages go to the chat that is active when the
\* handler that appends them runs
C35_AppendsToActiveChat ==
    [][\A c \in Appended :
          /\ c = current_chat
          /\ Len(objs'[c].history) > Len(objs[c].history)
          /\ SubSeq(objs'[c].history, 1, Len(objs[c].history)) = objs[c].history]_vars

\* The step in which on_web_search_finished starts the model worker
ModelCallStarted(i) ==
    /\ on_web_search_finished(i)
    /\ workers' # <<>> /\ workers'[Len(workers')].kind = "model"

\* The model call of a search turn is made on chat c: its input is c's
\* history, which holds the User message of the turn before a WebResults
\* message, and its model is c's
FinalCallOn(c) ==
    LET w == workers'[Len(workers')]
        history == objs'[c].history
    IN  /\ w.hist = history
        /\ \E j, k \in 1..Len(history) :
              /\ j < k
              /\ history[j] = Msg("user", turn.text, "")
              /\ history[k].kind = "web_results"
        /\ w.model_name = IF objs'[c].model = "" THEN DEFAULT_MODEL_NAME
                          ELSE objs'[c].model

\* C36: the final model call of a search turn answers the submitted
\* question.  Its input is the history of the chat that received the turn's
\* User message, with that message before the WebResults message, and it
\* uses that chat's model, whatever chat is active when the search completes.
C36_FinalCallAnswersQuestion ==
    [][\A i \in W : ModelCallStarted(i) => FinalCallOn(turn.chat)]_vars

\* What holds instead: the call is made on the history and with the model of
\* the chat active when the search completes, which holds the WebResults
\* message but not necessarily the User message
C36_FinalCallOnActiveChat ==
    [][\A i \in W :
          ModelCallStarted(i) =>
              LET w == workers'[Len(workers')]
                  history == objs'[current_chat].history
              IN  /\ current_chat # 0
                  /\ w.hist = history /\ w.ref = current_chat
                  /\ \E k \in 1..Len(history) : history[k].kind = "web_results"
                  /\ w.model_name = IF objs'[current_chat].model = ""
                                    THEN DEFAULT_MODEL_NAME
                                    ELSE objs'[current_chat].model
                  /\ (current_chat = turn.chat => FinalCallOn(turn.chat))]_vars

\* The titles of the chats other than c are as they were
OtherTitlesKept(c) ==
    \A d \in 1..Len(objs) : d # c => objs'[d].title = objs[d].title

\* C37: a generated title goes to the chat it was generated for.  When the
\* title call completes, the title is applied to the chat whose history was
\* given to the Title Generator and the title of no other chat changes, also
\* when the active chat was changed while the call was in flight.
C37_TitleGoesToItsChat ==
    [][\A i \in W :
          (on_title_ready(i) /\ Strip(workers[i].out) # <<>>) =>
              /\ objs'[workers[i].for_chat].title = Strip(workers[i].out)
              /\ OtherTitlesKept(workers[i].for_chat)]_vars

\* What holds instead: the title is applied to the chat that is active when
\* the call completes, and to none when no chat is active
C37_TitleGoesToActiveChat ==
    [][\A i \in W :
          (on_title_ready(i) /\ Strip(workers[i].out) # <<>>) =>
              /\ workers[i].for_chat # 0
              /\ OtherTitlesKept(current_chat)
              /\ current_chat # 0 => objs'[current_chat].title = Strip(workers[i].out)]_vars

\* A title a user rename can leave: non-empty and not matching the untitled
\* default "chat ..."
UserTitle(title) == ~TitleIsGeneric(title)

\* C38: a user rename is never overwritten by auto-titling.  A chat whose
\* title does not match the untitled default keeps that title over every
\* title completion, also when the rename was made while the turn or its
\* title call was in flight.
C38_RenameIsKept ==
    [][\A i \in W :
          on_title_ready(i) =>
              \A c \in 1..Len(objs) :
                  UserTitle(objs[c].title) => objs'[c].title = objs[c].title]_vars

\* What holds instead: the untitled-default test is made when the title call
\* is started, on the chat active then; the completion overwrites whatever
\* title the chat active at completion has
C38_TestedAtDispatchOnly ==
    /\ [](\A i \in W : workers[i].kind = "title" => workers[i].for_chat # 0)
    /\ [][\A i \in 1..Len(workers') :
             (workers'[i].kind = "title" /\ (i > Len(workers) \/ workers[i].kind # "title")) =>
                 /\ workers'[i].for_chat = current_chat'
                 /\ TitleIsGeneric(objs'[workers'[i].for_chat].title)]_vars
    /\ [][\A i \in W :
             (on_title_ready(i) /\ Strip(workers[i].out) # <<>> /\ current_chat # 0) =>
                 objs'[current_chat].title = Strip(workers[i].out)]_vars

\* h is an initial part of g
IsPrefix(h, g) == Len(h) <= Len(g) /\ SubSeq(g, 1, Len(h)) = h

RECURSIVE GrownUpTo(_)
\* The number of entries the step has added to the histories of the chats
\* 1..n
GrownUpTo(n) ==
    IF n = 0 THEN 0
    ELSE GrownUpTo(n - 1) + Len(objs'[n].history) - Len(objs[n].history)

\* The step is an accepted submit
Accepted == turn'.n # turn.n

\* Every chat of the step's first state is there in the second with a history
\* that extends the old one, and the entries added are those the turn counts
AppendOnlyStep ==
    /\ Len(objs') >= Len(objs)
    /\ \A c \in 1..Len(objs) : IsPrefix(objs[c].history, objs'[c].history)
    /\ GrownUpTo(Len(objs)) = IF Accepted THEN turn'.appended
                              ELSE turn'.appended - turn.appended
    /\ (~Accepted /\ ~\E i \in W : on_web_search_finished(i) \/ on_reply_ready(i))
           => GrownUpTo(Len(objs)) = 0

\* C39: live histories are append-only.  No step removes, reorders or
\* rewrites an entry of the history of a chat; the entries a step adds are
\* added at the end; a turn appends at most four entries over all chats, the
\* first of them at its submit, and a step that is neither an accepted submit
\* nor the handling of a finished search or reply (a rejected submit, a
\* rename, a model switch, a chat selection, a new chat, a worker's step, a
\* title completion, an error) appends none.
C39_AppendOnly ==
    /\ [](turn.appended <= 4)
    /\ [][AppendOnlyStep]_vars

\* A search turn under strict_web_only has appended its four entries: User,
\* WebResults, System and Assistant
C39_Witness ==
    /\ turn.path = "search"
    /\ turn.appended = 4
    /\ ~llm_busy

\* The save at shutdown, whatever its outcome, leaves the histories in memory
\* as they are (it writes compacted copies)
C39_SaveKeepsHistories ==
    [][(\E outcome \in {"ok", "fail_before", "fail_during"} : closeEvent(outcome)) =>
           Histories' = Histories]_vars

\* The search worker has called search_web
SearchCalled(w) ==
    \/ w.pc \in {"search_call", "fetch_call", "finished"}
    \/ w.pc = "error" /\ w.raised # ""

\* The step on which the worker i decides its query: run() without the
\* planner, or the return of the planner call, whatever it returns
QueryDecided(i) ==
    \/ SW_run(i) /\ workers'[i].pc # "planner_call"
    \/ \E r \in PlannerResponses : SW_planner_end(i, r.outcome, r.content)

\* C40: the search is never called with an empty query inside a turn.  A
\* search worker of the pipeline holds the raw input of an accepted turn,
\* non-empty after trimming; whatever the planner returns or however it
\* fails, the worker goes on to the search call with a query that is
\* non-empty (also after trimming), and the ValueError of search_web for an
\* empty query is raised in no worker.
C40_QueryNeverEmpty ==
    /\ [](\A i \in W :
             workers[i].kind = "search" =>
                 /\ workers[i].raw_message = turn.text
                 /\ Strip(workers[i].raw_message) # <<>>
                 /\ workers[i].raised # "ValueError"
                 /\ SearchCalled(workers[i]) => Strip(workers[i].search_query) # <<>>)
    /\ [][\A i \in W :
             QueryDecided(i) =>
                 /\ workers'[i].pc = "search_call"
                 /\ Strip(workers'[i].search_query) # <<>>]_vars

\* The search call is under way with the raw input as query, after a planner
\* call that was made and gave no query of its own
C40_Witness ==
    \E i \in W :
        /\ workers[i].kind = "search" /\ workers[i].pc = "search_call"
        /\ workers[i].ws.use_planner
        /\ Count(log, "planner_end") = 1
        /\ workers[i].search_query = workers[i].raw_message
        /\ workers[i].search_query # <<>>
====
